---- MODULE Spec2Model ----
(***************************************************************************)
(* Code4Ved scraping core: the robots.txt gate, the token-bucket rate      *)
(* limiter, the filesystem content store, the per-source scraper task loop *)
(* and the orchestrator's scrape_source, modelled from                      *)
(* src/src/code4ved/scraping/*.py.                                          *)
(*                                                                         *)
(* Strings are sequences of one-character strings, so that prefix tests,   *)
(* substring tests, lower-casing and concatenation are computed, not       *)
(* assumed.  Time is counted in whole ticks.                                *)
(***************************************************************************)
EXTENDS Integers, Sequences, FiniteSets, TLC

VARIABLES
    rsite,      \* the source as the gate sees it: robots settings and the robots.txt served
    rcall,      \* the last _check_robots_txt call: its inputs and its answer
    rblocks,    \* stats['robots_txt_blocks'] of the scraper the gate belongs to
    bucket,     \* TokenBucketRateLimiter: tokens, last_update, counters
    bclock,     \* wall clock of the token-bucket run, in ticks
    bhist,      \* acquire() calls of the run: start of the first, return of the last, count
    storage,    \* FileSystemStorage and the directory tree under its base_path
    lastStore,  \* the last store_content call: its argument and how it ended
    config,     \* ScrapingConfig and the source's SourceMetadata, as the scraper reads them
    clock,      \* wall clock of the scrape run, in ticks
    scraper,    \* BaseScraper: _last_request_time and stats
    orch,       \* ScrapingOrchestrator.stats
    call,       \* the scrape_source invocation: arguments, position, what it returned
    task,       \* the ScrapingTask scrape_source built
    results,    \* the results list of scrape_task
    idx,        \* position of the for loop of scrape_task in task.urls
    hist,       \* what happened to each URL of the task, and when requests went out
    fileop,     \* the last load_content / cleanup_orphaned_files call or outside deletion
    fleet,      \* the scrape_all_sources invocation: one scrape_source task per source
    vcheck,     \* a Content, the validation settings, and what the two validations answered
    lock,       \* TokenBucketRateLimiter._lock and the concurrent callers of acquire()
    shared,     \* the tasks that run scrape_task on one scraper at the same time
    root,       \* a storage root and the FileSystemStorage objects open on it together
    manager,    \* Code4VedManager: its registry and its last call
    life,       \* one ScrapingTask and one ScrapingResult under calls of their methods
    hashing,    \* two Contents and the input of their content hashes
    ids,        \* the wall clock and the ids of the Tasks built by scrape_source
    crawl       \* one discover_urls call: the site, the queue, what was found

robotsVars == <<rsite, rcall, rblocks>>
bucketVars == <<bucket, bclock, bhist>>
storeVars == <<storage, lastStore>>
scrapeVars == <<config, clock, scraper, orch, call, task, results, idx, hist>>
filesVars == <<fileop>>
fleetVars == <<fleet>>
validateVars == <<vcheck>>
lockVars == <<lock>>
sharedVars == <<shared>>
rootVars == <<root>>
managerVars == <<manager>>
lifeVars == <<life>>
hashVars == <<hashing>>
idsVars == <<ids>>
crawlVars == <<crawl>>
lateVars == <<hashVars, idsVars, crawlVars>>
restVars == <<filesVars, fleetVars, validateVars, lockVars, sharedVars, rootVars, managerVars, lifeVars, lateVars>>
vars == <<rsite, rcall, rblocks, bucket, bclock, bhist, storage, lastStore,
          config, clock, scraper, orch, call, task, results, idx, hist, fileop,
          fleet, vcheck, lock, shared, root, manager, life,
          hashing, ids, crawl>>

----------------------------------------------------------------------------
(* Bounds *)

MaxLines  == 2    \* lines of a robots.txt body
MaxChecks == 2    \* robots checks in one run
MaxAcquires  == 5 \* acquire() calls in one token-bucket run
MaxCapacity  == 2 \* largest bucket capacity tried
MaxRateDen   == 2 \* slowest rate tried: one token per MaxRateDen ticks
MaxGap       == 2 \* longest pause of the caller between two acquire() calls, in ticks
MaxOversleep == 1 \* longest time asyncio.sleep runs over, in ticks
MaxStores    == 3 \* store_content calls in one run
MaxSessions  == 2 \* FileSystemStorage objects opened on the storage root, one after another
MaxUrls      == 2 \* URLs handed to one scrape_source call
MaxRetries   == 1 \* largest config.max_retries tried
MaxDelay     == 1 \* longest time fetching robots.txt takes, in ticks
MaxFileOps   == 3 \* load, cleanup and outside deletions in one run of the storage root
MaxCallers   == 3 \* coroutines that call acquire() on one bucket
MaxFieldLen == 2 \* longest text of a Content whose hash input is computed
MaxTasks == 3 \* scrape_source calls that build a Task in one run
MaxIdTime == 3 \* length of a run of scrape_source calls, in ticks
MaxContentUrls == 2 \* content pages of the site that is crawled
MaxPagesAsked == 2 \* largest max_pages handed to discover_urls
MaxLifeCalls == 4 \* method calls on one ScrapingTask and one ScrapingResult
MaxManagerCalls == 4 \* calls on one Code4VedManager
MaxTime      == 3 \* length of a run of concurrent callers, in ticks

----------------------------------------------------------------------------
(* Strings *)

Min(a, b) == IF a <= b THEN a ELSE b
Max(a, b) == IF a >= b THEN a ELSE b

\* str.startswith
StartsWith(s, p) ==
    /\ Len(p) <= Len(s)
    /\ \A i \in 1..Len(p) : s[i] = p[i]

\* Python's `p in s` on strings
IsSubstring(p, s) ==
    \E k \in 0..Len(s) :
        /\ k + Len(p) <= Len(s)
        /\ \A i \in 1..Len(p) : s[k + i] = p[i]

\* str.lower, on the characters the model uses
LowerChar(ch) == CASE ch = "A" -> "a"
                   [] ch = "B" -> "b"
                   [] ch = "C" -> "c"
                   [] OTHER    -> ch

Lower(s) == [i \in 1..Len(s) |-> LowerChar(s[i])]

----------------------------------------------------------------------------
(* RobotsGate: BaseScraper._check_robots_txt *)

\* config.user_agent ("Code4Ved/1.0"), shortened to two characters
user_agent == <<"C", "4">>

\* One line of robots.txt: the field before the colon (already matched
\* case-insensitively, the code lower-cases the whole body) and the value
\* after it as the file spells it.
RobotsAgents == {<<"*">>, <<"x", "C", "4">>, <<"c">>}
RobotsPaths  == {<<>>, <<"/", "A">>}
RobotsLine ==
    [field : {"user-agent"}, value : RobotsAgents]
        \cup [field : {"disallow"}, value : RobotsPaths]
        \cup [field : {"allow"}, value : {<<"/">>}]
        \cup [field : {"other"}, value : {<<>>}]

RobotsBodies == UNION {[1..n -> RobotsLine] : n \in 0..MaxLines}

\* What session.get(robots_url) does: it raises (connection error, timeout,
\* retries exhausted) or answers with a status code and a body, here the
\* lines the site serves at robots_txt_url.
RobotsResponses(body) ==
    {[kind |-> "network_error", status_code |-> 0, lines |-> <<>>]}
        \cup [kind : {"response"}, status_code : {200, 404, 500}, lines : {body}]

\* A URL to check: its path, and whether urlparse(url) raises ValueError on it
CheckUrls ==
    [path : {<<"/", "a", "b">>, <<"/", "A">>, <<"/", "b">>}, malformed : {FALSE}]
        \cup [path : {<<"/", "a">>}, malformed : {TRUE}]

RobotsConfigs == [respect_robots : BOOLEAN, robots_txt_url : BOOLEAN]

\* base.py 165-177: the scan over the lines, from line i on.
\* "blocked": return False; "allowed": the loop ends; "raised": urlparse raised.
RECURSIVE RobotsScan(_, _, _, _)
RobotsScan(lines, i, in_user_agent_section, url) ==
    IF i > Len(lines) THEN "allowed"
    ELSE LET line  == lines[i]
             value == Lower(line.value)
         IN  IF line.field = "user-agent"
             THEN RobotsScan(lines, i + 1,
                             value = <<"*">> \/ IsSubstring(Lower(user_agent), value),
                             url)
             ELSE IF in_user_agent_section /\ line.field = "disallow" /\ value # <<>>
             THEN IF url.malformed THEN "raised"
                  ELSE IF StartsWith(url.path, value) THEN "blocked"
                  ELSE RobotsScan(lines, i + 1, in_user_agent_section, url)
             ELSE RobotsScan(lines, i + 1, in_user_agent_section, url)

\* base.py 151-154: a 404 answer allows the URL
RobotsNotFound(resp) == IF resp.status_code = 404 THEN TRUE ELSE FALSE

\* (mutant) raise_for_status left out: an error page is parsed like a robots.txt
RobotsHttpError_Unchecked(resp) == FALSE

\* base.py 156, 179-185: raise_for_status raises HTTPError on 4xx/5xx, and
\* the handler allows the URL
RobotsHttpError(resp) == resp.status_code >= 400

\* base.py 134-188.  allowed: the return value; blocked: the increment of
\* stats['robots_txt_blocks']; fetched: whether robots.txt was requested.
_check_robots_txt(cfg, url, resp) ==
    IF ~cfg.respect_robots \/ ~cfg.robots_txt_url
    THEN [allowed |-> TRUE, blocked |-> 0, fetched |-> FALSE]
    ELSE IF resp.kind = "network_error"
    THEN [allowed |-> TRUE, blocked |-> 0, fetched |-> TRUE]
    ELSE IF RobotsNotFound(resp)
    THEN [allowed |-> TRUE, blocked |-> 0, fetched |-> TRUE]
    ELSE IF RobotsHttpError(resp)
    THEN [allowed |-> TRUE, blocked |-> 0, fetched |-> TRUE]
    ELSE LET scan == RobotsScan(resp.lines, 1, FALSE, url)
         IN  IF scan = "blocked"
             THEN [allowed |-> FALSE, blocked |-> 1, fetched |-> TRUE]
             ELSE [allowed |-> TRUE, blocked |-> 0, fetched |-> TRUE]

NoRobotsCall ==
    [n |-> 0,
     url |-> [path |-> <<"/", "b">>, malformed |-> FALSE],
     resp |-> [kind |-> "network_error", status_code |-> 0, lines |-> <<>>],
     allowed |-> TRUE,
     requests |-> 0]    \* the requests for robots_txt_url so far

IdleRobotsVars ==
    /\ rsite = [cfg |-> [respect_robots |-> TRUE, robots_txt_url |-> TRUE], body |-> <<>>]
    /\ rcall = NoRobotsCall
    /\ rblocks = 0

InitRobotsVars ==
    /\ rsite \in [cfg : RobotsConfigs, body : RobotsBodies]
    /\ rcall = NoRobotsCall
    /\ rblocks = 0

\* One call of _check_robots_txt(url) with what the network answers
CheckRobots ==
    /\ rcall.n < MaxChecks
    /\ \E url \in CheckUrls, resp \in RobotsResponses(rsite.body) :
          LET r == _check_robots_txt(rsite.cfg, url, resp)
          IN  /\ rcall' = [n |-> rcall.n + 1, url |-> url,
                           resp |-> resp, allowed |-> r.allowed,
                           requests |-> rcall.requests + (IF r.fetched THEN 1 ELSE 0)]
              /\ rblocks' = rblocks + r.blocked
              /\ UNCHANGED rsite


----------------------------------------------------------------------------
(* RateLimiter: TokenBucketRateLimiter *)

\* The rate is one token per rate_den ticks (rate = 1/rate_den per tick), so
\* that every wait is a whole number of ticks.  tokens is kept multiplied by
\* rate_den: tokens = rate_den stands for one whole token.

\* rate_limiter.py 37-53: __init__(rate, capacity) at time now
NewBucket(rate_den, capacity, now) ==
    [rate_den |-> rate_den, capacity |-> capacity,
     tokens |-> capacity * rate_den, last_update |-> now,
     total_requests |-> 0, blocked_requests |-> 0, total_wait_time |-> 0]

\* rate_limiter.py 60-64: refill for the time since last_update, capped
Refill(b, now) ==
    [b EXCEPT !.tokens = Min(b.capacity * b.rate_den, b.tokens + (now - b.last_update)),
              !.last_update = now]

\* rate_limiter.py 72: wait_time = (1 - tokens) / rate
WaitTime(b) == b.rate_den - b.tokens

\* rate_limiter.py 79-81: after the sleep the bucket is drained; last_update
\* keeps the time the call started at (line 64), not the time the sleep ended
AfterWait(b, woke) ==
    [b EXCEPT !.tokens = 0,
              !.total_requests = @ + 1,
              !.blocked_requests = @ + 1,
              !.total_wait_time = @ + WaitTime(b)]

\* rate_limiter.py 55-81: acquire() entered at time now, the sleep running
\* over by `over` ticks.  bucket: the limiter afterwards; returned: the time
\* the call returns.
acquire(b0, now, over) ==
    LET b == Refill(b0, now)
    IN  IF b.tokens >= b.rate_den
        THEN [bucket |-> [b EXCEPT !.tokens = @ - b.rate_den,
                                   !.total_requests = @ + 1],
              returned |-> now]
        ELSE [bucket |-> AfterWait(b, now + WaitTime(b) + over),
              returned |-> now + WaitTime(b) + over]

IdleBucketVars ==
    /\ bclock = 0
    /\ bucket = NewBucket(1, 1, 0)
    /\ bhist = [n |-> 0, first_start |-> 0, last_return |-> 0]

InitBucketVars ==
    /\ bclock = 0
    /\ \E rate_den \in 1..MaxRateDen, capacity \in 1..MaxCapacity :
          bucket = NewBucket(rate_den, capacity, 0)
    /\ bhist = [n |-> 0, first_start |-> 0, last_return |-> 0]

\* The caller pauses for `gap` ticks and then awaits acquire(); the calls
\* are consecutive, the lock is free when each starts.
Acquire ==
    /\ bhist.n < MaxAcquires
    /\ \E gap \in 0..MaxGap, over \in 0..MaxOversleep :
          LET now == bclock + gap
              r   == acquire(bucket, now, over)
          IN  /\ bucket' = r.bucket
              /\ bclock' = r.returned
              /\ bhist' = [n |-> bhist.n + 1,
                           first_start |-> IF bhist.n = 0 THEN now ELSE bhist.first_start,
                           last_return |-> r.returned]


----------------------------------------------------------------------------
(* ContentStore: FileSystemStorage *)

\* models.py 110: the characters get_filename keeps (c.isalnum() or one of ' ', '-', '_')
IsFilenameChar(ch) == ch \in {"a", "b", "x", "y", " ", "-", "_"}

\* str.strip, for spaces
RECURSIVE Strip(_)
Strip(s) ==
    IF s = <<>> THEN s
    ELSE IF Head(s) = " " THEN Strip(Tail(s))
    ELSE IF s[Len(s)] = " " THEN Strip(SubSeq(s, 1, Len(s) - 1))
    ELSE s

\* models.py 110-111
CleanTitle(title) ==
    LET kept == Strip(SelectSeq(title, IsFilenameChar))
    IN  [i \in 1..Len(kept) |-> IF kept[i] = " " THEN "_" ELSE kept[i]]

\* A path under base_path: the directory, the file name's stem and its suffix.
\* models.py 107-116: "{clean_title}_{timestamp}.{format}"
get_filename(c) ==
    [stem |-> CleanTitle(c.title) \o <<"_", c.scraped_at>>, suffix |-> c.format]

\* models.py 118-121: the body's name with ".{format}" replaced by "_metadata.json"
get_metadata_filename(c) ==
    [stem |-> get_filename(c).stem \o <<"_metadata">>, suffix |-> "json"]

\* storage.py 83-99: {source}/{category or "uncategorized"}/{format}/
_get_storage_path(c) ==
    <<c.source, IF c.category = "" THEN "uncategorized" ELSE c.category, c.format>>

TextPath(c)     == [dir |-> _get_storage_path(c), name |-> get_filename(c)]
MetadataPath(c) == [dir |-> _get_storage_path(c), name |-> get_metadata_filename(c)]

\* storage.py 70-81: sha256 of "{text}|{url}|{source}".  SHA-256 is taken to
\* be collision-free, so the hash is the string it is computed from.
_get_content_hash(c) == c.text \o <<"|">> \o c.url \o <<"|">> \o c.source

\* (mutant) the duplicate check never finds anything
_is_duplicate_Never(st, c) == FALSE

\* storage.py 101-114
_is_duplicate(st, c) ==
    IF ~st.duplicate_detection THEN FALSE
    ELSE _get_content_hash(c) \in st._content_hashes

\* (mutant) the index file is not read back
_load_existing_hashes_Skipped(st) == {}

\* storage.py 43-56: the hashes a new FileSystemStorage starts with
_load_existing_hashes(st) ==
    IF ~st.duplicate_detection THEN {}
    ELSE IF st.hash_file.exists THEN st.hash_file.hashes
    ELSE {}

\* storage.py 58-68: write _content_hashes to .content_hashes.json
_save_content_hashes(st) ==
    IF ~st.duplicate_detection THEN st
    ELSE [st EXCEPT !.hash_file = [exists |-> TRUE, hashes |-> st._content_hashes]]

\* a file written under base_path
WriteFile(st, path, data) ==
    [st EXCEPT !.files = (path :> data) @@ st.files]

\* storage.py 116-161.  storage: the store afterwards; raised: StorageError
\* was raised; error: what it wraps.
store_content(st, c) ==
    IF _is_duplicate(st, c)
    THEN [storage |-> st, raised |-> TRUE, error |-> "duplicate"]
    ELSE IF ~c.encodable
    THEN \* open(text_path, 'w') creates the file, f.write raises UnicodeEncodeError
         [storage |-> WriteFile(st, TextPath(c), [kind |-> "text", text |-> <<>>]),
          raised |-> TRUE, error |-> "encode"]
    ELSE LET body    == WriteFile(st, TextPath(c), [kind |-> "text", text |-> c.text])
             sidecar == WriteFile(body, MetadataPath(c), [kind |-> "json", data |-> c])
             indexed == IF st.duplicate_detection
                        THEN _save_content_hashes(
                                 [sidecar EXCEPT !._content_hashes = @ \cup {_get_content_hash(c)}])
                        ELSE sidecar
         IN  [storage |-> indexed, raised |-> FALSE, error |-> "none"]

\* storage.py 25-41: FileSystemStorage(config) on a storage root holding `files`
\* and the index file `hash_file`
NewStorage(duplicate_detection, files, hash_file, session) ==
    LET st == [duplicate_detection |-> duplicate_detection,
               files |-> files, hash_file |-> hash_file,
               _content_hashes |-> {}, session |-> session]
    IN  [st EXCEPT !._content_hashes = _load_existing_hashes(st)]

\* The Contents offered to the store.  StoreContents holds two Contents that
\* differ in scraped_at alone (same hash, different file), two that differ
\* in text alone (different hash, same file) and one whose text its encoding
\* cannot encode.
Content(text, title, scraped_at, encodable) ==
    [text |-> text, title |-> title, url |-> <<"h">>, source |-> <<"s">>,
     format |-> "html", category |-> "", scraped_at |-> scraped_at,
     encodable |-> encodable]

StoreContents ==
    {Content(text, <<"a", "/", " ">>, at, TRUE) : text \in {<<"x">>, <<"y">>}, at \in {"t1", "t2"}}
        \cup {Content(<<"x", "|">>, <<"b">>, "t1", FALSE)}

NoStore ==
    [n |-> 0, content |-> Content(<<"x">>, <<"a", "/", " ">>, "t1", TRUE),
     raised |-> FALSE, error |-> "none", session |-> 1]

EmptyFiles == [p \in {} |-> [kind |-> "text", text |-> <<>>]]

IdleStoreVars ==
    /\ storage = NewStorage(TRUE, EmptyFiles, [exists |-> FALSE, hashes |-> {}], 1)
    /\ lastStore = NoStore

InitStoreVars ==
    /\ \E dd \in BOOLEAN :
          storage = NewStorage(dd, EmptyFiles, [exists |-> FALSE, hashes |-> {}], 1)
    /\ lastStore = NoStore

\* One call of store_content(content)
StoreContent ==
    /\ lastStore.n < MaxStores
    /\ \E c \in StoreContents :
          LET r == store_content(storage, c)
          IN  /\ storage' = r.storage
              /\ lastStore' = [n |-> lastStore.n + 1, content |-> c, raised |-> r.raised,
                               error |-> r.error, session |-> storage.session]

\* The store object is dropped and a new FileSystemStorage is built on the
\* same storage root with the same configuration.
Reopen ==
    /\ storage.session < MaxSessions
    /\ storage' = NewStorage(storage.duplicate_detection, storage.files,
                             storage.hash_file, storage.session + 1)
    /\ UNCHANGED lastStore


----------------------------------------------------------------------------
(* Several FileSystemStorage objects on one storage root *)

\* the FileSystemStorage objects, each built from the same configuration
Stores == {1, 2}

\* files, hash_file: what is under base_path; objects: each object's own
\* _content_hashes, once it is built; n: the store_content calls so far;
\* returned: the hashes of the Contents for which store_content returned a path
NoRoot ==
    [duplicate_detection |-> TRUE, files |-> EmptyFiles,
     hash_file |-> [exists |-> FALSE, hashes |-> {}],
     objects |-> [i \in Stores |-> [open |-> FALSE, _content_hashes |-> {}]],
     n |-> 0, returned |-> {}]

IdleRootVars == root = NoRoot

InitRootVars ==
    \E dd \in BOOLEAN : root = [NoRoot EXCEPT !.duplicate_detection = dd]

\* object i as a FileSystemStorage on the root as it is now
StoreObject(i) ==
    [duplicate_detection |-> root.duplicate_detection, files |-> root.files,
     hash_file |-> root.hash_file,
     _content_hashes |-> root.objects[i]._content_hashes, session |-> i]

\* storage.py 25-41: FileSystemStorage(config) builds object i
OpenStore(i) ==
    /\ ~root.objects[i].open
    /\ LET st == NewStorage(root.duplicate_detection, root.files, root.hash_file, i)
       IN  root' = [root EXCEPT !.objects[i] =
                       [open |-> TRUE, _content_hashes |-> st._content_hashes]]

\* storage.py 116-161: store_content(content) on object i.  The method has
\* no await and takes no lock on the root: calls on two objects follow
\* one another in any order.
StoreThrough(i) ==
    /\ root.objects[i].open
    /\ root.n < MaxStores
    /\ \E c \in StoreContents :
          LET r == store_content(StoreObject(i), c)
          IN  root' = [root EXCEPT
                          !.files = r.storage.files,
                          !.hash_file = r.storage.hash_file,
                          !.objects[i]._content_hashes = r.storage._content_hashes,
                          !.n = @ + 1,
                          !.returned = IF r.raised THEN @
                                       ELSE @ \cup {_get_content_hash(c)}]


----------------------------------------------------------------------------
(* TokenBucketRateLimiter.acquire called by concurrent coroutines *)

Callers == 1..MaxCallers

\* asyncio.Lock: its holder (0: free) and the callers waiting for it, first
\* come first served; pc: where each caller is; wake: when the sleep of the
\* caller in asyncio.sleep(wait_time) is due
NoLock ==
    [holder |-> 0, queue |-> <<>>, pc |-> [p \in Callers |-> "idle"], wake |-> 0]

IdleLockVars == lock = NoLock

\* rate_limiter.py 58-77 run by caller p at time now, the lock being its own:
\* the refill, and then either the token is taken and the lock released, or
\* the caller goes to sleep inside `async with self._lock`
EnterAcquire(p, b0, lk, now) ==
    LET b == Refill(b0, now)
    IN  IF b.tokens >= b.rate_den
        THEN [bucket |-> [b EXCEPT !.tokens = @ - b.rate_den,
                                   !.total_requests = @ + 1],
              lock |-> [lk EXCEPT !.holder = 0, !.pc[p] = "returned"]]
        ELSE [bucket |-> b,
              lock |-> [lk EXCEPT !.holder = p, !.pc[p] = "sleeping",
                                  !.wake = now + WaitTime(b)]]

\* A coroutine calls acquire(): rate_limiter.py 57.  A free lock that nobody
\* waits for is taken at once; otherwise the caller waits in line.
CallAcquire(p) ==
    /\ lock.pc[p] = "idle"
    /\ IF lock.holder = 0 /\ lock.queue = <<>>
       THEN LET r == EnterAcquire(p, bucket, lock, bclock)
            IN  bucket' = r.bucket /\ lock' = r.lock
       ELSE /\ lock' = [lock EXCEPT !.queue = Append(@, p), !.pc[p] = "queued"]
            /\ UNCHANGED bucket
    /\ UNCHANGED <<bclock, bhist>>

\* The lock was released and the first caller in line takes it
TakeLock(p) ==
    /\ lock.holder = 0
    /\ lock.queue # <<>>
    /\ Head(lock.queue) = p
    /\ LET r == EnterAcquire(p, bucket, [lock EXCEPT !.queue = Tail(@)], bclock)
       IN  bucket' = r.bucket /\ lock' = r.lock
    /\ UNCHANGED <<bclock, bhist>>

\* rate_limiter.py 77-81: the sleep of caller p is over; the bucket is
\* drained, the call counted and the lock released
WakeUp(p) ==
    /\ lock.pc[p] = "sleeping"
    /\ bclock >= lock.wake
    /\ bucket' = AfterWait(bucket, bclock)
    /\ lock' = [lock EXCEPT !.holder = 0, !.pc[p] = "returned"]
    /\ UNCHANGED <<bclock, bhist>>

\* Time passes; a sleep runs over by MaxOversleep at most
Tick ==
    /\ bclock < MaxTime
    /\ \A p \in Callers :
          lock.pc[p] = "sleeping" => bclock < lock.wake + MaxOversleep
    /\ bclock' = bclock + 1
    /\ UNCHANGED <<bucket, bhist, lock>>


----------------------------------------------------------------------------
(* ContentStore: load_content and cleanup_orphaned_files *)

\* str.replace(old, new) on a sequence of characters and name parts
RECURSIVE Replace(_, _, _)
Replace(s, old, new) ==
    IF Len(s) < Len(old) THEN s
    ELSE IF StartsWith(s, old)
    THEN new \o Replace(SubSeq(s, Len(old) + 1, Len(s)), old, new)
    ELSE <<Head(s)>> \o Replace(Tail(s), old, new)

\* storage.py 176-178 and 301-303:
\* content_path.with_suffix('.json').with_name(
\*     content_path.stem.replace(".{suffix}", "_metadata.json"))
\* with_name replaces the whole file name by the stem after the replace; the
\* stem holds no ".{suffix}", so the name is the stem, without a suffix.
LoadMetadataPath(content_path) ==
    [dir |-> content_path.dir,
     name |-> [stem |-> Replace(content_path.name.stem,
                                <<".", content_path.name.suffix>>,
                                <<"_metadata", ".", "json">>),
               suffix |-> ""]]

\* storage.py 314-316:
\* metadata_file.with_suffix('').with_name(metadata_file.stem.replace("_metadata", ""))
CleanupContentPath(metadata_file) ==
    [dir |-> metadata_file.dir,
     name |-> [stem |-> Replace(metadata_file.name.stem, <<"_metadata">>, <<>>),
               suffix |-> ""]]

\* name.endswith('_metadata.json'): storage.py 229 and rglob("*_metadata.json")
IsMetadataName(name) ==
    /\ name.suffix = "json"
    /\ name.stem # <<>>
    /\ name.stem[Len(name.stem)] = "_metadata"

\* storage.py 203-240, without filters: every file that is no sidecar
list_content(st) == {p \in DOMAIN st.files : ~IsMetadataName(p.name)}

Unlink(files, gone) == [p \in DOMAIN files \ gone |-> files[p]]

\* storage.py 163-200.  raised: StorageError was raised; content: the
\* ScrapedContent returned.
load_content(st, content_path) ==
    LET metadata_path == LoadMetadataPath(content_path)
    IN  IF metadata_path \notin DOMAIN st.files
        THEN [raised |-> TRUE, error |-> "Metadata file not found",
              content |-> NoStore.content]
        ELSE IF content_path \notin DOMAIN st.files
                \/ st.files[metadata_path].kind # "json"
        THEN [raised |-> TRUE, error |-> "Failed to load content",
              content |-> NoStore.content]
        ELSE [raised |-> FALSE, error |-> "none",
              content |-> [st.files[metadata_path].data EXCEPT
                              !.text = st.files[content_path].text]]

\* storage.py 291-325.  The first loop unlinks the content files whose
\* metadata path does not exist, the second the sidecars whose content path
\* does not exist after the first loop.
cleanup_orphaned_files(st) ==
    LET contents  == {p \in list_content(st) : LoadMetadataPath(p) \notin DOMAIN st.files}
        files1    == Unlink(st.files, contents)
        metadatas == {m \in DOMAIN files1 :
                         IsMetadataName(m.name) /\ CleanupContentPath(m) \notin DOMAIN files1}
    IN  [storage |-> [st EXCEPT !.files = Unlink(files1, metadatas)],
         removed_count |-> Cardinality(contents) + Cardinality(metadatas)]

\* storage.py 203-240 with the filters export_content passes; <<>> and "" stand
\* for None.  source selects the directory base_path / source.
list_content_of(st, source, format_type) ==
    {p \in list_content(st) :
        /\ source # <<>> => p.dir[1] = source
        /\ format_type # "" => p.name.suffix = format_type}

\* storage.py 327-362: the files under output_path afterwards, output_path
\* being empty before.  The body is copied to its relative path; the sidecar
\* is copied if the path computed for it exists.
export_content(st, source, format_type) ==
    LET contents  == list_content_of(st, source, format_type)
        metadatas == {p \in contents : LoadMetadataPath(p) \in DOMAIN st.files}
        copied    == contents \cup {LoadMetadataPath(p) : p \in metadatas}
    IN  [q \in copied |->
            IF q \in contents THEN st.files[q]
            ELSE st.files[CHOOSE p \in metadatas : LoadMetadataPath(p) = q]]

\* storage.py 364-405.  The list returned, as the set of its groups; a group
\* as its hash and the paths of its items.
get_duplicate_content(st) ==
    IF ~st.duplicate_detection THEN {}
    ELSE LET loaded == {p \in list_content(st) : ~load_content(st, p).raised}
             content_hash(p) == _get_content_hash(load_content(st, p).content)
             hash_groups == {[hash |-> h, items |-> {p \in loaded : content_hash(p) = h}] :
                                h \in {content_hash(p) : p \in loaded}}
         IN  {g \in hash_groups : Cardinality(g.items) > 1}

NoFileOp == [n |-> 0, op |-> "none", path |-> TextPath(NoStore.content),
             raised |-> FALSE, loaded |-> NoStore.content,
             before |-> EmptyFiles, removed_count |-> 0,
             source |-> <<>>, format_type |-> "", exported |-> EmptyFiles,
             duplicates |-> {}]

IdleFilesVars == fileop = NoFileOp

\* One call of load_content(content_path) for a body file of the store
LoadContent ==
    /\ fileop.n < MaxFileOps
    /\ \E p \in list_content(storage) :
          LET r == load_content(storage, p)
          IN  fileop' = [NoFileOp EXCEPT
                            !.n = fileop.n + 1, !.op = "load", !.path = p,
                            !.before = storage.files,
                            !.raised = r.raised, !.loaded = r.content]
    /\ UNCHANGED <<storage, lastStore>>

\* One call of cleanup_orphaned_files()
CleanupOrphanedFiles ==
    /\ fileop.n < MaxFileOps
    /\ LET r == cleanup_orphaned_files(storage)
       IN  /\ storage' = r.storage
           /\ fileop' = [NoFileOp EXCEPT
                            !.n = fileop.n + 1, !.op = "cleanup",
                            !.before = storage.files,
                            !.removed_count = r.removed_count]
    /\ UNCHANGED lastStore

\* One call of export_content(output_path, source, format_type) to an empty
\* output_path
ExportContent ==
    /\ fileop.n < MaxFileOps
    /\ \E source \in {<<>>, <<"s">>}, format_type \in {"", "pdf"} :
          fileop' = [NoFileOp EXCEPT
                        !.n = fileop.n + 1, !.op = "export",
                        !.before = storage.files,
                        !.source = source, !.format_type = format_type,
                        !.exported = export_content(storage, source, format_type)]
    /\ UNCHANGED <<storage, lastStore>>

\* One call of get_duplicate_content()
GetDuplicateContent ==
    /\ fileop.n < MaxFileOps
    /\ fileop' = [NoFileOp EXCEPT
                     !.n = fileop.n + 1, !.op = "duplicates",
                     !.before = storage.files,
                     !.duplicates = get_duplicate_content(storage)]
    /\ UNCHANGED <<storage, lastStore>>

\* The store object is dropped and a FileSystemStorage is built on the same
\* storage root from a configuration with this duplicate_detection
Reconfigure ==
    /\ storage.session < MaxSessions
    /\ \E dd \in BOOLEAN :
          storage' = NewStorage(dd, storage.files, storage.hash_file, storage.session + 1)
    /\ UNCHANGED <<lastStore, fileop>>

\* A file under base_path is deleted from outside the store (the body of an
\* item, or its sidecar)
RemoveFile ==
    /\ fileop.n < MaxFileOps
    /\ \E p \in DOMAIN storage.files :
          /\ storage' = [storage EXCEPT !.files = Unlink(@, {p})]
          /\ fileop' = [NoFileOp EXCEPT !.n = fileop.n + 1, !.op = "remove", !.path = p]
    /\ UNCHANGED lastStore


----------------------------------------------------------------------------
(* ScraperRunner: BaseScraper and GretilScraper.scrape_url *)

\* 1 / rate_limit, in ticks, for the rate limits tried
Intervals == {1, 2}

\* The i-th URL of a call: http://h/a/<i>
DigitChar(i) == CASE i = 1 -> "1" [] i = 2 -> "2" [] i = 3 -> "3" [] OTHER -> "4"
Url(i) == [text |-> <<"h", "/", "a", "/", DigitChar(i)>>,
           path |-> <<"/", "a", "/", DigitChar(i)>>,
           malformed |-> FALSE]

\* robots.txt bodies the site serves during a scrape: one without rules and
\* one that disallows /a for every agent
ScrapeRobotsBodies ==
    {<<>>, <<[field |-> "user-agent", value |-> <<"*">>],
             [field |-> "disallow", value |-> <<"/", "A">>]>>}

ScrapeRobotsResponses ==
    [kind : {"response"}, status_code : {200}, lines : ScrapeRobotsBodies]
        \cup [kind : {"response"}, status_code : {404}, lines : {<<>>}]

\* How session.get(url) ends (base.py 254-274)
GetOutcomes == {"ok", "timeout", "http_429"}

\* How long session.get(url) takes, in ticks
GetDelays == {0, 1}

\* What the adapter makes of a page it fetched: it raises while extracting,
\* or it builds a Content with the text it found
Extractions == {"raises", "valid_text", "short_text"}

NoStats ==
    [requests_made |-> 0, successful_requests |-> 0, failed_requests |-> 0,
     rate_limited_requests |-> 0, robots_txt_blocks |-> 0, validation_failures |-> 0]

\* base.py 45-77
NewScraper == [_last_request_time |-> 0, stats |-> NoStats]

\* (mutant) the limiter stamps the time and never sleeps
_apply_rate_limit_NoSleep(sc, interval, now) ==
    [scraper |-> [sc EXCEPT !._last_request_time = now], woke |-> now]

\* base.py 118-132.  now: when the call is entered; woke: when it returns.
_apply_rate_limit(sc, interval, now) ==
    LET time_since_last_request == now - sc._last_request_time
        sleep_time == IF time_since_last_request < interval
                      THEN interval - time_since_last_request ELSE 0
    IN  [scraper |-> [sc EXCEPT !._last_request_time = now + sleep_time],
         woke |-> now + sleep_time]

\* (mutant) an answer 429 is counted as a request and as nothing else
GetEffect_429Uncounted(stats, outcome) ==
    IF outcome = "http_429"
    THEN [stats |-> [stats EXCEPT !.requests_made = @ + 1],
          raised |-> TRUE, error_message |-> "Rate limited"]
    ELSE [stats |-> [stats EXCEPT !.requests_made = @ + 1, !.successful_requests = @ + 1],
          raised |-> FALSE, error_message |-> ""]

\* base.py 251-274: the statistics and the exception of one GET
GetEffect(stats, outcome) ==
    CASE outcome = "ok" ->
            [stats |-> [stats EXCEPT !.requests_made = @ + 1, !.successful_requests = @ + 1],
             raised |-> FALSE, error_message |-> ""]
      [] outcome = "http_429" ->
            [stats |-> [stats EXCEPT !.requests_made = @ + 1, !.rate_limited_requests = @ + 1],
             raised |-> TRUE, error_message |-> "Rate limited"]
      [] outcome = "timeout" ->
            [stats |-> [stats EXCEPT !.requests_made = @ + 1, !.failed_requests = @ + 1],
             raised |-> TRUE, error_message |-> "Request timeout"]
      [] outcome = "connection_error" ->
            [stats |-> [stats EXCEPT !.requests_made = @ + 1, !.failed_requests = @ + 1],
             raised |-> TRUE, error_message |-> "Connection error"]
      [] OTHER ->
            [stats |-> [stats EXCEPT !.requests_made = @ + 1, !.failed_requests = @ + 1],
             raised |-> TRUE, error_message |-> "HTTP error"]

\* (mutant) the GET is sent before the answer of the robots check is looked at
RequestAfterLimit_GetFirst(sc, cfg, url, woke, env) ==
    LET robots == _check_robots_txt(cfg.robots, url, env.robots)
        get    == GetEffect(sc.stats, env.get)
        sent   == [sc EXCEPT !.stats = [get.stats EXCEPT !.robots_txt_blocks = @ + robots.blocked]]
    IN  [scraper |-> sent, now |-> woke + env.get_delay,
         raised |-> get.raised \/ ~robots.allowed,
         error_message |-> IF ~robots.allowed THEN "URL disallowed by robots.txt"
                           ELSE get.error_message,
         get_at |-> woke, stamp |-> woke]

\* base.py 247-274: _make_request from the return of _apply_rate_limit, at
\* time woke, on: the robots check and the GET, neither of which yields to
\* the event loop.
RequestAfterLimit(sc, cfg, url, woke, env) ==
    LET robots  == _check_robots_txt(cfg.robots, url, env.robots)
        checked == woke + (IF robots.fetched THEN env.robots_delay ELSE 0)
        counted == [sc EXCEPT !.stats.robots_txt_blocks = @ + robots.blocked]
        get     == GetEffect(counted.stats, env.get)
    IN  IF ~robots.allowed
        THEN [scraper |-> counted, now |-> checked, raised |-> TRUE,
              error_message |-> "URL disallowed by robots.txt",
              get_at |-> -1, stamp |-> woke]
        ELSE [scraper |-> [counted EXCEPT !.stats = get.stats],
              now |-> checked + env.get_delay, raised |-> get.raised,
              error_message |-> get.error_message,
              get_at |-> checked, stamp |-> woke]

\* base.py 230-274.  env: what the network does during the call (the robots
\* answer and how long it takes, the GET's outcome and how long it takes).
\* get_at: when the GET went out, -1 if it did not.
_make_request(sc, cfg, url, now, env) ==
    LET limited == _apply_rate_limit(sc, cfg.interval, now)
    IN  RequestAfterLimit(limited.scraper, cfg, url, limited.woke, env)

\* The Content gretil_scraper.py 76-87 builds for a page
ScrapedText(extraction) ==
    IF extraction = "valid_text" THEN <<"x", "y">> ELSE <<"x">>

ScrapedContent(url, extraction, now) ==
    [text |-> ScrapedText(extraction), title |-> <<"a">>, url |-> url.text,
     source |-> <<"g">>, format |-> "html", category |-> "",
     scraped_at |-> ToString(now), encodable |-> TRUE]

NoContent ==
    [text |-> <<>>, title |-> <<>>, url |-> <<>>, source |-> <<>>, format |-> "",
     category |-> "", scraped_at |-> "", encodable |-> TRUE]

\* gretil_scraper.py 46-92: every exception, _make_request's included, is
\* raised again as ScrapingError("Failed to scrape {url}: {e}")
scrape_url(sc, cfg, url, now, env) ==
    LET req == _make_request(sc, cfg, url, now, env)
    IN  IF req.raised
        THEN [scraper |-> req.scraper, now |-> req.now, raised |-> TRUE,
              error_type |-> "ScrapingError", error_message |-> req.error_message,
              content |-> NoContent, get_at |-> req.get_at, stamp |-> req.stamp]
        ELSE IF env.extraction = "raises"
        THEN [scraper |-> req.scraper, now |-> req.now, raised |-> TRUE,
              error_type |-> "ScrapingError",
              error_message |-> "Could not find content element",
              content |-> NoContent, get_at |-> req.get_at, stamp |-> req.stamp]
        ELSE [scraper |-> req.scraper, now |-> req.now, raised |-> FALSE,
              error_type |-> "", error_message |-> "",
              content |-> ScrapedContent(url, env.extraction, req.now),
              get_at |-> req.get_at, stamp |-> req.stamp]

\* base.py 190-228.  ok: the return value; failures: the increment of
\* stats['validation_failures']; warning: what is logged.
_validate_content(cfg, content) ==
    IF ~cfg.validate_content
    THEN [ok |-> TRUE, failures |-> 0, warning |-> ""]
    ELSE IF Len(content.text) < cfg.min_text_length
    THEN [ok |-> FALSE, failures |-> 1, warning |-> "Content too short"]
    ELSE IF Len(content.text) > cfg.max_text_length
    THEN [ok |-> FALSE, failures |-> 1, warning |-> "Content too long"]
    ELSE IF content.format \notin cfg.allowed_formats
    THEN [ok |-> FALSE, failures |-> 1, warning |-> "Format not allowed"]
    ELSE IF cfg.validate_encoding /\ ~content.encodable
    THEN [ok |-> FALSE, failures |-> 1, warning |-> "Encoding validation failed"]
    ELSE [ok |-> TRUE, failures |-> 0, warning |-> ""]

----------------------------------------------------------------------------
(* ScrapingTask and ScrapingResult (models.py) *)

\* models.py 124-155
NewTask(urls, max_retries) ==
    [urls |-> urls, max_retries |-> max_retries, status |-> "pending",
     total_urls |-> 0,      \* models.py 152: the default, no caller passes another value
     processed_urls |-> 0, successful_urls |-> 0, failed_urls |-> 0]

\* models.py 167-170
ScrapingTask_start(t) == [t EXCEPT !.status = "running"]

\* models.py 172-175
ScrapingTask_complete(t) == [t EXCEPT !.status = "completed"]

\* models.py 177-180
ScrapingTask_fail(t) == [t EXCEPT !.status = "failed"]

\* models.py 190-195: the percentage as the fraction num / den
progress_percentage(t) ==
    IF t.total_urls = 0 THEN [num |-> 0, den |-> 1]
    ELSE [num |-> t.processed_urls * 100, den |-> t.total_urls]

\* models.py 182-188
add_result(t, success) ==
    [t EXCEPT !.processed_urls = @ + 1,
              !.successful_urls = IF success THEN @ + 1 ELSE @,
              !.failed_urls = IF success THEN @ ELSE @ + 1]

\* models.py 198-219, as base.py 306-310 builds it
NewResult(url) ==
    [task_id |-> "task", url |-> url, status |-> "running", retry_count |-> 0,
     content |-> NoContent, error_message |-> "", error_type |-> ""]

\* (mutant) the content is not attached
complete_NoContent(r, content) == [r EXCEPT !.status = "completed"]

\* models.py 221-227
complete(r, content) == [r EXCEPT !.status = "completed", !.content = content]

\* models.py 229-235
fail(r, error_message, error_type) ==
    [r EXCEPT !.status = "failed", !.error_message = error_message,
              !.error_type = error_type]

\* (mutant) the error of the failed attempt is kept
retry_KeepsError(r) == [r EXCEPT !.status = "retrying", !.retry_count = @ + 1]

\* models.py 237-242
retry(r) ==
    [r EXCEPT !.status = "retrying", !.retry_count = @ + 1,
              !.error_message = "", !.error_type = ""]

\* (mutant) the task is completed as soon as one URL succeeded
FinalStatus_AnySuccess(t) == IF t.successful_urls > 0 THEN "completed" ELSE "failed"

\* base.py 339-343
FinalStatus(t) == IF t.failed_urls = 0 THEN "completed" ELSE "failed"

----------------------------------------------------------------------------
(* scrape_task and scrape_source *)

\* base.py 312-337: the end of one pass of the for loop.  got: what
\* scrape_url did; val: what _validate_content answered (when it was asked).
\* A raise with retries left runs result.retry() and `continue`, which
\* starts the pass of the next URL: the result is not appended.
LoopPass(t, rs, url, got, val) ==
    LET result == NewResult(url)
    IN  IF ~got.raised /\ val.ok
        THEN [task |-> add_result(t, TRUE),
              results |-> Append(rs, complete(result, got.content))]
        ELSE IF result.retry_count < t.max_retries
        THEN [task |-> t, results |-> rs]
        ELSE [task |-> add_result(t, FALSE),
              results |-> Append(rs,
                  IF got.raised
                  THEN fail(result, got.error_message, got.error_type)
                  ELSE fail(result, "Content validation failed", "ContentValidationError"))]

\* (mutant) the content of a result is not handed to the store
StoreOne_Skipped(st, result) == [storage |-> st, calls |-> <<>>]

\* orchestrator.py 266-270: the body of the loop of _store_results for one
\* result.  calls: the store_content calls made (none or one) and how each
\* ended; a store_content that raises is logged and nothing else.
StoreOne(st, result) ==
    IF result.content # NoContent /\ result.status = "completed"
    THEN LET r == store_content(st, result.content)
         IN  [storage |-> r.storage,
              calls |-> <<[content |-> result.content, raised |-> r.raised,
                           error |-> r.error]>>]
    ELSE [storage |-> st, calls |-> <<>>]

\* orchestrator.py 259-270: store the content of every completed result
RECURSIVE _store_results(_, _, _)
_store_results(st, rs, i) ==
    IF i > Len(rs) THEN st
    ELSE _store_results(StoreOne(st, rs[i]).storage, rs, i + 1)

\* the store_content calls _store_results makes, in their order
RECURSIVE StoreCalls(_, _, _)
StoreCalls(st, rs, i) ==
    IF i > Len(rs) THEN <<>>
    ELSE StoreOne(st, rs[i]).calls \o StoreCalls(StoreOne(st, rs[i]).storage, rs, i + 1)

\* orchestrator.py 272-284
_update_stats(stats, rs) ==
    LET completed == Cardinality({i \in DOMAIN rs : rs[i].status = "completed"})
    IN  [stats EXCEPT !.successful_urls = @ + completed,
                      !.failed_urls = @ + (Len(rs) - completed)]

\* the history of the times at which something happened: how often, when
\* last, and the smallest distance between two in a row (-1: none yet)
NoTimes == [n |-> 0, last |-> 0, min_gap |-> -1]
Timed(h, at) ==
    [n |-> h.n + 1, last |-> at,
     min_gap |-> IF h.n = 0 THEN -1
                 ELSE IF h.min_gap = -1 THEN at - h.last
                 ELSE Min(h.min_gap, at - h.last)]

\* (mutant) the URL list is not truncated
FirstPages_All(urls, max_pages) == urls

\* orchestrator.py 187: urls[:max_pages]
FirstPages(urls, max_pages) ==
    IF max_pages >= 0
    THEN SubSeq(urls, 1, Min(Len(urls), max_pages))
    ELSE SubSeq(urls, 1, Max(0, Len(urls) + max_pages))

NoCall == [pc |-> "idle", n_urls |-> 0, max_pages |-> 0, started_at |-> 0,
           returned_at |-> 0, error |-> "", returned |-> <<>>, stores |-> <<>>]

ScrapeConfigs ==
    [max_retries : 0..MaxRetries, interval : Intervals,
     robots : [respect_robots : {TRUE}, robots_txt_url : {TRUE}],
     validate_content : {TRUE}, min_text_length : {2}, max_text_length : {3},
     allowed_formats : {{"html", "pdf", "plaintext", "xml", "json"}},
     validate_encoding : {TRUE}]

IdleScrapeVars ==
    /\ config = CHOOSE c \in ScrapeConfigs : c.max_retries = 0 /\ c.interval = 1
                                              /\ c.robots.respect_robots
    /\ clock = 10
    /\ scraper = NewScraper
    /\ orch = [total_tasks |-> 0, completed_tasks |-> 0, failed_tasks |-> 0,
               total_urls |-> 0, successful_urls |-> 0, failed_urls |-> 0]
    /\ call = NoCall
    /\ task = NewTask(<<>>, 0)
    /\ results = <<>>
    /\ idx = 1
    /\ hist = [urls |-> <<>>, gets |-> NoTimes, stamps |-> NoTimes]

\* orchestrator.py 29-56 and base.py 45-77: the orchestrator, its store and
\* the scraper of the source, just built
InitScrapeVars ==
    /\ config \in ScrapeConfigs
    /\ clock = 10
    /\ scraper = NewScraper
    /\ orch = [total_tasks |-> 0, completed_tasks |-> 0, failed_tasks |-> 0,
               total_urls |-> 0, successful_urls |-> 0, failed_urls |-> 0]
    /\ call = NoCall
    /\ task = NewTask(<<>>, 0)
    /\ results = <<>>
    /\ idx = 1
    /\ hist = [urls |-> <<>>, gets |-> NoTimes, stamps |-> NoTimes]

\* orchestrator.py 152-210 and base.py 300-303: scrape_source(source_name,
\* urls, max_pages, discover_urls=False) up to the first pass of the loop of
\* scrape_task.  The URLs of the call are Url(1), ..., Url(n).
ScrapeSource ==
    /\ call.pc = "idle"
    /\ \E known \in BOOLEAN, n \in 0..MaxUrls, max_pages \in 0..MaxUrls :
          LET urls == FirstPages([i \in 1..n |-> i], max_pages)
              c    == [call EXCEPT !.n_urls = n, !.max_pages = max_pages,
                                   !.started_at = clock]
          IN  IF ~known
              THEN \* line 167-168
                   /\ call' = [c EXCEPT !.pc = "raised", !.error = "ValueError"]
                   /\ UNCHANGED <<task, orch, hist>>
              ELSE IF n = 0
              THEN \* line 179-181
                   /\ call' = [c EXCEPT !.pc = "returned", !.returned_at = clock]
                   /\ UNCHANGED <<task, orch, hist>>
              ELSE IF urls = <<>>
              THEN \* line 184-191: ScrapingTask rejects an empty URL list (models.py 160-165)
                   /\ call' = [c EXCEPT !.pc = "raised", !.error = "ValidationError"]
                   /\ UNCHANGED <<task, orch, hist>>
              ELSE /\ call' = [c EXCEPT !.pc = "loop"]
                   /\ task' = [NewTask(urls, config.max_retries) EXCEPT !.status = "running"]
                   /\ orch' = [orch EXCEPT !.total_tasks = @ + 1,
                                           !.total_urls = @ + Len(urls)]
                   /\ hist' = [hist EXCEPT !.urls =
                                  [i \in 1..Len(urls) |->
                                      [attempts |-> 0, raised |-> 0, denied |-> FALSE,
                                       too_short |-> 0]]]
    /\ results' = <<>>
    /\ idx' = 1
    /\ UNCHANGED <<config, clock, scraper, storage>>

\* base.py 305-337: one pass of the for loop of scrape_task, for task.urls[idx]
ScrapeUrl ==
    /\ call.pc = "loop"
    /\ idx <= Len(task.urls)
    /\ \E robots \in ScrapeRobotsResponses, robots_delay \in 0..MaxDelay,
          get \in GetOutcomes, get_delay \in GetDelays, extraction \in Extractions :
          LET env  == [robots |-> robots, robots_delay |-> robots_delay, get |-> get,
                       get_delay |-> get_delay, extraction |-> extraction]
              url  == task.urls[idx]
              got  == scrape_url(scraper, config, Url(url), clock, env)
              val  == IF got.raised THEN [ok |-> TRUE, failures |-> 0, warning |-> ""]
                      ELSE _validate_content(config, got.content)
              pass == LoopPass(task, results, url, got, val)
              bad  == got.raised \/ ~val.ok
          IN  /\ scraper' = [got.scraper EXCEPT !.stats.validation_failures = @ + val.failures]
              /\ clock' = got.now
              /\ task' = pass.task
              /\ results' = pass.results
              /\ hist' = [urls |-> [hist.urls EXCEPT
                                       ![idx].attempts = @ + 1,
                                       ![idx].raised = IF bad THEN @ + 1 ELSE @,
                                       ![idx].denied =
                                           got.error_message = "URL disallowed by robots.txt",
                                       ![idx].too_short =
                                           IF val.warning = "Content too short" THEN @ + 1 ELSE @],
                          gets |-> IF got.get_at >= 0 THEN Timed(hist.gets, got.get_at)
                                   ELSE hist.gets,
                          stamps |-> Timed(hist.stamps, got.stamp)]
    /\ idx' = idx + 1
    /\ UNCHANGED <<config, orch, call, storage>>

\* base.py 339-347: the loop is over, scrape_task completes or fails the task
ScrapeTaskReturn ==
    /\ call.pc = "loop"
    /\ idx > Len(task.urls)
    /\ task' = [task EXCEPT !.status = FinalStatus(task)]
    /\ call' = [call EXCEPT !.pc = "task_done"]
    /\ UNCHANGED <<config, clock, scraper, orch, results, idx, hist, storage>>

\* orchestrator.py 212-223: scrape_source stores the results, updates the
\* statistics and returns the results
ScrapeSourceReturn ==
    /\ call.pc = "task_done"
    /\ storage' = _store_results(storage, results, 1)
    /\ orch' = _update_stats(orch, results)
    /\ call' = [call EXCEPT !.pc = "returned", !.returned_at = clock,
                            !.returned = results,
                            !.stores = StoreCalls(storage, results, 1)]
    /\ UNCHANGED <<config, clock, scraper, task, results, idx, hist>>

----------------------------------------------------------------------------
(* ContentValidator (utils/validators.py) next to BaseScraper._validate_content *)

\* validators.py 120-133: urlparse(url) has a scheme and a netloc.  The
\* character "h" stands for "http://host".
_is_valid_url(url) == url # <<>> /\ Head(url) = "h"

\* validators.py 135-149
_is_valid_encoding(content) == content.encodable

\* validators.py 45-118.  valid = FALSE: validate raises ValidationError
\* with the errors joined; warnings do not make it raise.
validate(v, content) ==
    LET errors ==
            (IF Len(content.text) < v.min_text_length THEN {"Text too short"}
             ELSE IF Len(content.text) > v.max_text_length THEN {"Text too long"}
             ELSE {})
            \cup (IF content.format \notin v.allowed_formats THEN {"Format not allowed"} ELSE {})
            \cup (IF ~_is_valid_url(content.url) THEN {"Invalid URL format"} ELSE {})
            \cup (IF content.title = <<>> \/ Strip(content.title) = <<>>
                  THEN {"Title is empty or missing"} ELSE {})
        warnings ==
            (IF \E pattern \in v.forbidden_patterns : IsSubstring(pattern, content.text)
             THEN {"Forbidden pattern found"} ELSE {})
            \cup (IF ~_is_valid_encoding(content) THEN {"Encoding validation failed"} ELSE {})
    IN  [valid |-> errors = {}, errors |-> errors, warnings |-> warnings]

\* The Contents validated: texts of length 1 to 4 with and without the
\* forbidden pattern "x", titles empty, blank and not, URLs well-formed and
\* (after an assignment to content.url) not, two formats, texts their
\* encoding can and cannot encode
ValidationContents ==
    [text : {<<"y">>, <<"y", "y">>, <<"x", "y">>, <<"y", "y", "y", "y">>},
     title : {<<>>, <<" ">>, <<"a">>},
     url : {<<"h">>, <<>>},
     format : {"html", "pdf"},
     encodable : BOOLEAN,
     source : {<<"g">>}, category : {""}, scraped_at : {"t1"}]

\* The settings of ContentValidator(...) and the same settings in the
\* ScrapingConfig of the scraper
ValidationConfigs ==
    [min_text_length : {2}, max_text_length : {3},
     allowed_formats : {{"html", "pdf", "plaintext", "xml", "json"}, {"html"}},
     forbidden_patterns : {{<<"x">>}},
     validate_content : {TRUE}, validate_encoding : BOOLEAN]

NoValidation ==
    [pc |-> "idle",
     content |-> CHOOSE c \in ValidationContents : TRUE,
     cfg |-> CHOOSE v \in ValidationConfigs : TRUE,
     validator |-> [valid |-> TRUE, errors |-> {}, warnings |-> {}],
     runner |-> [ok |-> TRUE, failures |-> 0, warning |-> ""]]

IdleValidateVars == vcheck = NoValidation

InitValidateVars ==
    \E c \in ValidationContents, v \in ValidationConfigs :
        vcheck = [NoValidation EXCEPT !.pc = "new", !.content = c, !.cfg = v]

\* ContentValidator(...).validate(content) and scraper._validate_content(content)
Validate ==
    /\ vcheck.pc = "new"
    /\ vcheck' = [vcheck EXCEPT !.pc = "done",
                                !.validator = validate(vcheck.cfg, vcheck.content),
                                !.runner = _validate_content(vcheck.cfg, vcheck.content)]


----------------------------------------------------------------------------
(* Two scrape_task coroutines on one scraper *)

\* the tasks, e.g. of two scrape_source calls for one source awaited together
Tasks == {1, 2}

\* pc: where each task is; left: the URLs it has still to request; wake:
\* when its asyncio.sleep is due; cpu: the task that is running and has not
\* yet reached an await that suspends it (0: none); gets: the GETs sent
NoShared ==
    [pc |-> [t \in Tasks |-> "done"], left |-> [t \in Tasks |-> 0],
     wake |-> [t \in Tasks |-> 0], cpu |-> 0, gets |-> NoTimes]

IdleSharedVars == shared = NoShared

InitSharedVars ==
    \E left \in [Tasks -> 1..MaxUrls] :
        shared = [NoShared EXCEPT !.pc = [t \in Tasks |-> "ready"], !.left = left]

\* what the network does for a request of these tasks: robots.txt is not
\* found, and at once; the GET succeeds after some time
SharedEnvs ==
    [robots : {[kind |-> "response", status_code |-> 404, lines |-> <<>>]},
     robots_delay : {0}, get : {"ok"}, get_delay : GetDelays,
     extraction : {"valid_text"}]

\* base.py 247-274 and on to the next pass of the loop of scrape_task: task
\* t, its time stamp set, sends its request, which blocks the event loop
SendRequest(t, sc, env) ==
    LET r    == RequestAfterLimit(sc, config, Url(shared.left[t]), clock, env)
        left == shared.left[t] - 1
    IN  /\ scraper' = r.scraper
        /\ clock' = r.now
        /\ shared' = [shared EXCEPT
                         !.left[t] = left,
                         !.pc[t] = IF left = 0 THEN "done" ELSE "ready",
                         !.cpu = IF left = 0 THEN 0 ELSE t,
                         !.gets = IF r.get_at >= 0 THEN Timed(@, r.get_at) ELSE @]

\* base.py 118-132 entered by task t: without a sleep the stamp is set and
\* the request sent; with one the task is suspended in asyncio.sleep, the
\* stamp not yet set
BeginRequest(t) ==
    /\ shared.pc[t] = "ready"
    /\ shared.cpu \in {0, t}
    /\ LET limited == _apply_rate_limit(scraper, config.interval, clock)
       IN  IF limited.woke = clock
           THEN \E env \in SharedEnvs : SendRequest(t, limited.scraper, env)
           ELSE /\ shared' = [shared EXCEPT !.pc[t] = "sleeping",
                                            !.wake[t] = limited.woke, !.cpu = 0]
                /\ UNCHANGED <<scraper, clock>>

\* base.py 130-132: the sleep of task t is over, it sets _last_request_time
\* to the time it is and goes on to its request
ResumeRequest(t) ==
    /\ shared.pc[t] = "sleeping"
    /\ shared.cpu = 0
    /\ clock >= shared.wake[t]
    /\ \E env \in SharedEnvs :
          SendRequest(t, [scraper EXCEPT !._last_request_time = clock], env)

\* Every task that has not ended sleeps: the event loop waits for the
\* first sleep that is due
AwaitSleepers ==
    LET sleepers == {t \in Tasks : shared.pc[t] = "sleeping"}
    IN  /\ sleepers # {}
        /\ \A t \in Tasks : shared.pc[t] \in {"sleeping", "done"}
        /\ \A t \in sleepers : clock < shared.wake[t]
        /\ \E t \in sleepers :
              /\ \A u \in sleepers : shared.wake[t] <= shared.wake[u]
              /\ clock' = shared.wake[t]
        /\ UNCHANGED <<scraper, shared>>


----------------------------------------------------------------------------
(* Orchestrator: scrape_all_sources *)

\* self.scrapers.keys(), in the order _initialize_scrapers registered them
SourceOrder == <<"gretil", "ambuda">>
Sources == {SourceOrder[i] : i \in DOMAIN SourceOrder}

\* A scrape_source task that asyncio.create_task has not created yet
NoSourceTask ==
    [pc |-> "none", scraper |-> NewScraper, task |-> NewTask(<<>>, 0),
     results |-> <<>>, idx |-> 1, outcomes |-> <<>>]

NoFleet ==
    [pc |-> "idle", max_pages |-> 0, rate_ok |-> [s \in Sources |-> TRUE],
     src |-> [s \in Sources |-> NoSourceTask], awaited |-> 0,
     all_results |-> [s \in {} |-> <<>>]]

IdleFleetVars == fleet = NoFleet

\* rate_ok[s]: the rate_limit of source s in the configuration is at least
\* the 0.1 that ScrapingTask accepts (models.py 134); SourceMetadata accepts
\* every rate_limit > 0 (models.py 54-59)
InitFleetVars ==
    \E rate_ok \in [Sources -> BOOLEAN] : fleet = [NoFleet EXCEPT !.rate_ok = rate_ok]

\* (mutant) the exception of an awaited task is not caught
AwaitTask_Uncaught(t) ==
    [raised |-> t.pc = "raised", results |-> t.results]

\* orchestrator.py 247-253: `results = await task` inside try/except Exception
AwaitTask(t) ==
    [raised |-> FALSE,
     results |-> IF t.pc = "raised" THEN <<>> ELSE t.results]

\* orchestrator.py 235-244: one task per registered source is created
ScrapeAllSources ==
    /\ fleet.pc = "idle"
    /\ \E max_pages \in 0..MaxUrls :
          fleet' = [fleet EXCEPT
                       !.pc = "gathering", !.max_pages = max_pages,
                       !.src = [s \in Sources |-> [NoSourceTask EXCEPT !.pc = "created"]]]
    /\ UNCHANGED <<storage, orch, clock>>

\* orchestrator.py 167-200 in the task of source s: URLs are discovered
\* (gretil_scraper.py 412-461: none when max_pages <= 0, and possibly more
\* than max_pages), the list is truncated and the ScrapingTask is built
SourceStart(s) ==
    /\ fleet.pc = "gathering"
    /\ fleet.src[s].pc = "created"
    /\ \E n \in 0..MaxUrls :
          /\ fleet.max_pages = 0 => n = 0
          /\ LET urls == FirstPages([i \in 1..n |-> i], fleet.max_pages)
             IN  IF n = 0
                 THEN /\ fleet' = [fleet EXCEPT !.src[s].pc = "returned"]
                      /\ UNCHANGED orch
                 ELSE IF ~fleet.rate_ok[s]
                 THEN \* pydantic ValidationError for rate_limit < 0.1
                      /\ fleet' = [fleet EXCEPT !.src[s].pc = "raised"]
                      /\ UNCHANGED orch
                 ELSE /\ fleet' = [fleet EXCEPT
                                      !.src[s].pc = "loop",
                                      !.src[s].task = [NewTask(urls, config.max_retries)
                                                          EXCEPT !.status = "running"]]
                      /\ orch' = [orch EXCEPT !.total_tasks = @ + 1,
                                              !.total_urls = @ + Len(urls)]
    /\ UNCHANGED <<storage, clock>>

\* base.py 305-337 in the task of source s: one pass of the for loop
SourceScrapeUrl(s) ==
    /\ fleet.pc = "gathering"
    /\ fleet.src[s].pc = "loop"
    /\ fleet.src[s].idx <= Len(fleet.src[s].task.urls)
    /\ \E get \in {"ok", "timeout"} :
          LET t    == fleet.src[s]
              env  == [robots |-> [kind |-> "response", status_code |-> 404, lines |-> <<>>],
                       robots_delay |-> 0, get |-> get, get_delay |-> 0,
                       extraction |-> "valid_text"]
              url  == t.task.urls[t.idx]
              got  == scrape_url(t.scraper, config, Url(url), clock, env)
              val  == IF got.raised THEN [ok |-> TRUE, failures |-> 0, warning |-> ""]
                      ELSE _validate_content(config, got.content)
              pass == LoopPass(t.task, t.results, url, got, val)
          IN  /\ fleet' = [fleet EXCEPT
                              !.src[s].scraper =
                                  [got.scraper EXCEPT !.stats.validation_failures = @ + val.failures],
                              !.src[s].task = pass.task,
                              !.src[s].results = pass.results,
                              !.src[s].idx = @ + 1,
                              !.src[s].outcomes = Append(@, get)]
              /\ clock' = got.now
    /\ UNCHANGED <<storage, orch>>

\* base.py 339-347 and orchestrator.py 212-223 in the task of source s
SourceReturn(s) ==
    /\ fleet.pc = "gathering"
    /\ fleet.src[s].pc = "loop"
    /\ fleet.src[s].idx > Len(fleet.src[s].task.urls)
    /\ storage' = _store_results(storage, fleet.src[s].results, 1)
    /\ orch' = _update_stats(orch, fleet.src[s].results)
    /\ fleet' = [fleet EXCEPT !.src[s].pc = "returned",
                              !.src[s].task.status = FinalStatus(fleet.src[s].task)]
    /\ UNCHANGED clock

\* orchestrator.py 247-253: the next task of the list is awaited
AwaitSource ==
    /\ fleet.pc = "gathering"
    /\ fleet.awaited < Len(SourceOrder)
    /\ LET s == SourceOrder[fleet.awaited + 1]
           r == AwaitTask(fleet.src[s])
       IN  /\ fleet.src[s].pc \in {"returned", "raised"}
           /\ fleet' = IF r.raised
                       THEN [fleet EXCEPT !.pc = "raised"]
                       ELSE [fleet EXCEPT !.awaited = @ + 1,
                                          !.all_results = (s :> r.results) @@ @]
    /\ UNCHANGED <<storage, orch, clock>>

\* orchestrator.py 255-257
ScrapeAllReturn ==
    /\ fleet.pc = "gathering"
    /\ fleet.awaited = Len(SourceOrder)
    /\ fleet' = [fleet EXCEPT !.pc = "returned"]
    /\ UNCHANGED <<storage, orch, clock>>


----------------------------------------------------------------------------
(* ScrapingTask and ScrapingResult: their methods called in any order *)

\* task, result: the objects; op, n: the last call and the calls so far;
\* before: the task and the result as they were before the last call
NoLife ==
    [task |-> NewTask(<<>>, 0), result |-> NewResult(Url(1)), op |-> "none", n |-> 0,
     before |-> [task |-> NewTask(<<>>, 0), result |-> NewResult(Url(1))]]

IdleLifeVars == life = NoLife

\* orchestrator.py 184-191 builds the task, base.py 306-310 the result
InitLifeVars ==
    \E n \in 1..MaxUrls :
        LET t == NewTask([i \in 1..n |-> Url(i)], 0)
        IN  life = [NoLife EXCEPT !.task = t, !.before.task = t]

\* a call of one method of the task or of the result
LifeCall(op, t, r) ==
    /\ life.n < MaxLifeCalls
    /\ life' = [task |-> t, result |-> r, op |-> op, n |-> life.n + 1,
                before |-> [task |-> life.task, result |-> life.result]]

TaskStart == LifeCall("start", ScrapingTask_start(life.task), life.result)

TaskComplete == LifeCall("task_complete", ScrapingTask_complete(life.task), life.result)

TaskFail == LifeCall("task_fail", ScrapingTask_fail(life.task), life.result)

\* add_result(success), as often as the task has URLs
TaskAddResult ==
    /\ life.task.processed_urls < Len(life.task.urls)
    /\ \E success \in BOOLEAN :
          LifeCall("add_result", add_result(life.task, success), life.result)

ResultComplete ==
    LifeCall("complete", life.task,
             complete(life.result, ScrapedContent(life.result.url, "valid_text", 0)))

ResultFail == LifeCall("fail", life.task, fail(life.result, "Request timeout", "ScrapingError"))

ResultRetry == LifeCall("retry", life.task, retry(life.result))


----------------------------------------------------------------------------
(* Code4VedManager: the resource registry *)

ResourceIds == {"r1", "r2"}

\* Resource (core/models.py, as the tests build it): an id and the other fields
Resources == [id : ResourceIds, name : {"a", "b"}]

NoResources == [i \in {} |-> [id |-> "r1", name |-> "a"]]

\* (mutant) an id that is registered is registered again
add_resource_Overwrite(resources, resource) ==
    [resources |-> (resource.id :> resource) @@ resources, raised |-> FALSE]

\* manager.py 28-41.  raised: Code4VedError
add_resource(resources, resource) ==
    IF resource.id \in DOMAIN resources
    THEN [resources |-> resources, raised |-> TRUE]
    ELSE [resources |-> (resource.id :> resource) @@ resources, raised |-> FALSE]

\* manager.py 43-56
remove_resource(resources, resource_id) ==
    IF resource_id \notin DOMAIN resources
    THEN [resources |-> resources, raised |-> TRUE]
    ELSE [resources |-> [i \in DOMAIN resources \ {resource_id} |-> resources[i]],
          raised |-> FALSE]

\* manager.py 58-73
get_resource(resources, resource_id) ==
    IF resource_id \notin DOMAIN resources
    THEN [resources |-> resources, raised |-> TRUE, returned |-> NoResources]
    ELSE [resources |-> resources, raised |-> FALSE,
          returned |-> (resource_id :> resources[resource_id])]

\* resources: Code4VedManager.resources; n, op, id, raised: the calls so far
\* and the last of them; live: the ids handed to add_resource and not handed
\* to remove_resource since
NoManager ==
    [resources |-> NoResources, n |-> 0, op |-> "none", id |-> "r1",
     raised |-> FALSE, live |-> {}]

IdleManagerVars == manager = NoManager

AddResource ==
    /\ manager.n < MaxManagerCalls
    /\ \E resource \in Resources :
          LET r == add_resource(manager.resources, resource)
          IN  manager' = [resources |-> r.resources, n |-> manager.n + 1, op |-> "add",
                          id |-> resource.id, raised |-> r.raised,
                          live |-> manager.live \cup {resource.id}]

RemoveResource ==
    /\ manager.n < MaxManagerCalls
    /\ \E resource_id \in ResourceIds :
          LET r == remove_resource(manager.resources, resource_id)
          IN  manager' = [resources |-> r.resources, n |-> manager.n + 1, op |-> "remove",
                          id |-> resource_id, raised |-> r.raised,
                          live |-> manager.live \ {resource_id}]

GetResource ==
    /\ manager.n < MaxManagerCalls
    /\ \E resource_id \in ResourceIds :
          LET r == get_resource(manager.resources, resource_id)
          IN  manager' = [resources |-> r.resources, n |-> manager.n + 1, op |-> "get",
                          id |-> resource_id, raised |-> r.raised,
                          live |-> manager.live]


----------------------------------------------------------------------------
(* The input of the content hash *)

\* the strings of length 1..n over the letter x and the delimiter
RECURSIVE Strings(_)
Strings(n) ==
    IF n = 0 THEN {}
    ELSE Strings(n - 1) \cup [1..n -> {"x", "|"}]

\* Contents as far as _get_content_hash reads them.  A url has a scheme and
\* a host (models.py 99-105), here the letter h, and whatever follows.
HashContents ==
    [text : Strings(MaxFieldLen),
     url : {<<"h">>, <<"h", "|", "a">>},
     source : {<<"s">>, <<"a", "|", "s">>}]

NoHashing ==
    [a |-> [text |-> <<"x">>, url |-> <<"h">>, source |-> <<"s">>],
     b |-> [text |-> <<"x">>, url |-> <<"h">>, source |-> <<"s">>],
     hash_a |-> <<>>, hash_b |-> <<>>, n |-> 0]

IdleHashVars == hashing = NoHashing

\* storage.py 70-81 applied to two Contents
HashTwoContents ==
    /\ hashing.n = 0
    /\ \E a, b \in HashContents :
          hashing' = [a |-> a, b |-> b, hash_a |-> _get_content_hash(a),
                      hash_b |-> _get_content_hash(b), n |-> 1]

----------------------------------------------------------------------------
(* The ids of the Tasks *)

\* ticks of the wall clock in one second
TicksPerSecond == 2

\* orchestrator.py 185: f"{source_name}_{datetime.now().strftime('%Y%m%d_%H%M%S')}",
\* the source and the time cut to the second
TaskId(source_name, now) == <<source_name, now \div TicksPerSecond>>

\* now: datetime.now(); made: the ids of the Tasks built so far
NoIds == [now |-> 0, made |-> <<>>]

IdleIdsVars == ids = NoIds

\* orchestrator.py 183-191: a scrape_source call builds its Task
BuildTask ==
    /\ Len(ids.made) < MaxTasks
    /\ \E source_name \in Sources :
          ids' = [ids EXCEPT !.made = Append(@, TaskId(source_name, ids.now))]

IdsTick ==
    /\ ids.now < MaxIdTime
    /\ ids' = [ids EXCEPT !.now = @ + 1]

----------------------------------------------------------------------------
(* GretilScraper.discover_urls *)

\* The site: index pages, which have links, and content pages
IndexPages == {[kind |-> "index", n |-> 0], [kind |-> "index", n |-> 1]}
ContentPages == [kind : {"content"}, n : 1..MaxContentUrls]
base_url == [kind |-> "index", n |-> 0]

\* gretil_scraper.py 463-500
_is_content_url(url) == url.kind = "content"

\* gretil_scraper.py 502-530
_is_index_url(url) == url.kind = "index"

\* the links of a page in the order of the document: by kind, then by number
RECURSIVE InOrder(_)
InOrder(links) ==
    IF links = {} THEN <<>>
    ELSE LET first == CHOOSE l \in links :
                         \A m \in links :
                            \/ l.kind = m.kind /\ l.n <= m.n
                            \/ l.kind = "content" /\ m.kind = "index"
         IN  <<first>> \o InOrder(links \ {first})

NoCrawl ==
    [links |-> [p \in IndexPages |-> {}], max_pages |-> 0, pc |-> "idle",
     discovered_urls |-> {}, to_visit |-> <<>>, visited |-> {}, requests |-> 0]

IdleCrawlVars == crawl = NoCrawl

InitCrawlVars ==
    \E links \in [IndexPages -> SUBSET (IndexPages \cup ContentPages)] :
        crawl = [NoCrawl EXCEPT !.links = links]

\* gretil_scraper.py 412-424: discover_urls(base_url, max_pages) is entered
DiscoverUrls ==
    /\ crawl.pc = "idle"
    /\ \E max_pages \in 0..MaxPagesAsked :
          crawl' = [crawl EXCEPT !.pc = "loop", !.max_pages = max_pages,
                                 !.to_visit = <<base_url>>]

\* gretil_scraper.py 425-458: one pass of the while loop.  The request for
\* the page succeeds or raises; a page that was visited is skipped.  The
\* content links of the page are all added to discovered_urls (447-449),
\* max_pages is looked at by the loop condition alone.
CrawlPass ==
    /\ crawl.pc = "loop"
    /\ crawl.to_visit # <<>>
    /\ Cardinality(crawl.discovered_urls) < crawl.max_pages
    /\ LET current_url == Head(crawl.to_visit)
           rest        == Tail(crawl.to_visit)
       IN  IF current_url \in crawl.visited
           THEN crawl' = [crawl EXCEPT !.to_visit = rest]
           ELSE \E ok \in BOOLEAN :
                   LET visited == crawl.visited \cup {current_url}
                       links   == InOrder(crawl.links[current_url])
                       found   == {l \in crawl.links[current_url] : _is_content_url(l)}
                       queued  == SelectSeq(links,
                                      LAMBDA l : _is_index_url(l) /\ l \notin visited)
                   IN  crawl' = [crawl EXCEPT
                                    !.visited = visited,
                                    !.requests = @ + 1,
                                    !.to_visit = IF ok THEN rest \o queued ELSE rest,
                                    !.discovered_urls =
                                        IF ok THEN @ \cup found ELSE @]

\* gretil_scraper.py 425 and 460: the loop condition fails, the list is returned
CrawlReturn ==
    /\ crawl.pc = "loop"
    /\ crawl.to_visit = <<>> \/ Cardinality(crawl.discovered_urls) >= crawl.max_pages
    /\ crawl' = [crawl EXCEPT !.pc = "returned"]

IdleLateVars == IdleHashVars /\ IdleIdsVars /\ IdleCrawlVars

IdleRestVars ==
    IdleFilesVars /\ IdleFleetVars /\ IdleValidateVars /\ IdleLockVars /\ IdleSharedVars
          /\ IdleRootVars /\ IdleManagerVars /\ IdleLifeVars /\ IdleLateVars


----------------------------------------------------------------------------
(* Specifications *)

\* The robots gate, called with every bounded input
InitRobots == InitRobotsVars /\ IdleBucketVars /\ IdleStoreVars /\ IdleScrapeVars /\ IdleRestVars
NextRobots == CheckRobots /\ UNCHANGED <<bucketVars, storeVars, scrapeVars, restVars>>
SpecRobots == InitRobots /\ [][NextRobots]_vars

\* One token bucket, acquired from by one caller
InitBucket == InitBucketVars /\ IdleRobotsVars /\ IdleStoreVars /\ IdleScrapeVars /\ IdleRestVars
NextBucket == Acquire /\ UNCHANGED <<robotsVars, storeVars, scrapeVars, restVars>>
SpecBucket == InitBucket /\ [][NextBucket]_vars

\* One storage root, stored to and re-opened
InitStore == InitStoreVars /\ IdleRobotsVars /\ IdleBucketVars /\ IdleScrapeVars /\ IdleRestVars
NextStore ==
    \/ StoreContent /\ UNCHANGED <<robotsVars, bucketVars, scrapeVars, restVars>>
    \/ Reopen /\ UNCHANGED <<robotsVars, bucketVars, scrapeVars, restVars>>
SpecStore == InitStore /\ [][NextStore]_vars

\* One storage root: stored to, loaded from, cleaned up, and losing files
InitFiles ==
    /\ InitStoreVars /\ IdleFilesVars /\ IdleFleetVars /\ IdleValidateVars /\ IdleLockVars
    /\ IdleSharedVars /\ IdleRootVars /\ IdleManagerVars /\ IdleLifeVars /\ IdleLateVars
    /\ IdleRobotsVars /\ IdleBucketVars /\ IdleScrapeVars
NextFiles ==
    \/ StoreContent /\ UNCHANGED <<robotsVars, bucketVars, scrapeVars, restVars>>
    \/ LoadContent /\ UNCHANGED <<robotsVars, bucketVars, scrapeVars, fleetVars, validateVars, lockVars,
                                sharedVars, rootVars, managerVars, lifeVars, lateVars>>
    \/ CleanupOrphanedFiles /\ UNCHANGED <<robotsVars, bucketVars, scrapeVars, fleetVars, validateVars, lockVars,
                                sharedVars, rootVars, managerVars, lifeVars, lateVars>>
    \/ RemoveFile /\ UNCHANGED <<robotsVars, bucketVars, scrapeVars, fleetVars, validateVars, lockVars,
                                sharedVars, rootVars, managerVars, lifeVars, lateVars>>
    \/ ExportContent /\ UNCHANGED <<robotsVars, bucketVars, scrapeVars, fleetVars, validateVars,
                                   lockVars, sharedVars, rootVars, managerVars, lifeVars, lateVars>>
    \/ GetDuplicateContent /\ UNCHANGED <<robotsVars, bucketVars, scrapeVars, fleetVars,
                                         validateVars, lockVars, sharedVars, rootVars,
                                         managerVars, lifeVars, lateVars>>
    \/ Reconfigure /\ UNCHANGED <<robotsVars, bucketVars, scrapeVars, fleetVars, validateVars,
                                 lockVars, sharedVars, rootVars, managerVars, lifeVars, lateVars>>
SpecFiles == InitFiles /\ [][NextFiles]_vars

\* One scrape_source call on a new orchestrator
InitScrape == InitScrapeVars /\ IdleRobotsVars /\ IdleBucketVars /\ IdleStoreVars /\ IdleRestVars
NextScrape ==
    \/ ScrapeSource /\ UNCHANGED <<robotsVars, bucketVars, lastStore, restVars>>
    \/ ScrapeUrl /\ UNCHANGED <<robotsVars, bucketVars, lastStore, restVars>>
    \/ ScrapeTaskReturn /\ UNCHANGED <<robotsVars, bucketVars, lastStore, restVars>>
    \/ ScrapeSourceReturn /\ UNCHANGED <<robotsVars, bucketVars, lastStore, restVars>>
SpecScrape == InitScrape /\ [][NextScrape]_vars

\* One scrape_source call on a new orchestrator whose storage root holds the
\* page of the first URL from an earlier run
PriorStorage ==
    LET empty   == NewStorage(TRUE, EmptyFiles, [exists |-> FALSE, hashes |-> {}], 1)
        earlier == store_content(empty, ScrapedContent(Url(1), "valid_text", 0)).storage
    IN  NewStorage(TRUE, earlier.files, earlier.hash_file, 2)
InitRescrape ==
    /\ InitScrapeVars /\ IdleRobotsVars /\ IdleBucketVars /\ IdleRestVars
    /\ storage = PriorStorage
    /\ lastStore = NoStore
SpecRescrape == InitRescrape /\ [][NextScrape]_vars

\* One token bucket, acquired from by concurrent coroutines of one event loop
LockRest == <<robotsVars, storeVars, scrapeVars, filesVars, fleetVars, validateVars, sharedVars,
             rootVars, managerVars, lifeVars, lateVars>>
InitLock ==
    /\ InitBucketVars /\ lock = NoLock
    /\ IdleFilesVars /\ IdleFleetVars /\ IdleValidateVars /\ IdleSharedVars /\ IdleRootVars /\ IdleManagerVars /\ IdleLifeVars /\ IdleLateVars
    /\ IdleRobotsVars /\ IdleStoreVars /\ IdleScrapeVars
NextLock ==
    \/ \E p \in Callers : CallAcquire(p) /\ UNCHANGED LockRest
    \/ \E p \in Callers : TakeLock(p) /\ UNCHANGED LockRest
    \/ \E p \in Callers : WakeUp(p) /\ UNCHANGED LockRest
    \/ Tick /\ UNCHANGED LockRest
SpecLock == InitLock /\ [][NextLock]_vars

\* One storage root with two FileSystemStorage objects
RootRest == <<robotsVars, bucketVars, storeVars, scrapeVars, filesVars, fleetVars, validateVars,
              lockVars, sharedVars, managerVars, lifeVars, lateVars>>
InitRoot ==
    /\ InitRootVars /\ IdleRobotsVars /\ IdleBucketVars /\ IdleStoreVars /\ IdleScrapeVars
    /\ IdleFilesVars /\ IdleFleetVars /\ IdleValidateVars /\ IdleLockVars /\ IdleSharedVars
    /\ IdleManagerVars /\ IdleLifeVars /\ IdleLateVars
NextRoot ==
    \/ \E i \in Stores : OpenStore(i) /\ UNCHANGED RootRest
    \/ \E i \in Stores : StoreThrough(i) /\ UNCHANGED RootRest
SpecRoot == InitRoot /\ [][NextRoot]_vars

\* The pure function _get_content_hash
OtherVars == <<robotsVars, bucketVars, storeVars, scrapeVars, filesVars, fleetVars,
               validateVars, lockVars, sharedVars, rootVars, managerVars, lifeVars>>
IdleOtherVars ==
    /\ IdleRobotsVars /\ IdleBucketVars /\ IdleStoreVars /\ IdleScrapeVars
    /\ IdleFilesVars /\ IdleFleetVars /\ IdleValidateVars /\ IdleLockVars /\ IdleSharedVars
    /\ IdleRootVars /\ IdleManagerVars /\ IdleLifeVars
InitHash == IdleHashVars /\ IdleIdsVars /\ IdleCrawlVars /\ IdleOtherVars
NextHash == HashTwoContents /\ UNCHANGED <<OtherVars, idsVars, crawlVars>>
SpecHash == InitHash /\ [][NextHash]_vars

\* scrape_source calls that build Tasks while the clock runs
InitIds == IdleIdsVars /\ IdleHashVars /\ IdleCrawlVars /\ IdleOtherVars
NextIds ==
    \/ BuildTask /\ UNCHANGED <<OtherVars, hashVars, crawlVars>>
    \/ IdsTick /\ UNCHANGED <<OtherVars, hashVars, crawlVars>>
SpecIds == InitIds /\ [][NextIds]_vars

\* One discover_urls call on a site
InitCrawl == InitCrawlVars /\ IdleHashVars /\ IdleIdsVars /\ IdleOtherVars
NextCrawl ==
    \/ DiscoverUrls /\ UNCHANGED <<OtherVars, hashVars, idsVars>>
    \/ CrawlPass /\ UNCHANGED <<OtherVars, hashVars, idsVars>>
    \/ CrawlReturn /\ UNCHANGED <<OtherVars, hashVars, idsVars>>
SpecCrawl == InitCrawl /\ [][NextCrawl]_vars

\* One ScrapingTask and one ScrapingResult
LifeRest == <<robotsVars, bucketVars, storeVars, scrapeVars, filesVars, fleetVars,
              validateVars, lockVars, sharedVars, rootVars, managerVars, lateVars>>
InitLife ==
    /\ InitLifeVars /\ IdleRobotsVars /\ IdleBucketVars /\ IdleStoreVars /\ IdleScrapeVars
    /\ IdleFilesVars /\ IdleFleetVars /\ IdleValidateVars /\ IdleLockVars /\ IdleSharedVars
    /\ IdleRootVars /\ IdleManagerVars /\ IdleLateVars
NextLife ==
    \/ TaskStart /\ UNCHANGED LifeRest
    \/ TaskComplete /\ UNCHANGED LifeRest
    \/ TaskFail /\ UNCHANGED LifeRest
    \/ TaskAddResult /\ UNCHANGED LifeRest
    \/ ResultComplete /\ UNCHANGED LifeRest
    \/ ResultFail /\ UNCHANGED LifeRest
    \/ ResultRetry /\ UNCHANGED LifeRest
SpecLife == InitLife /\ [][NextLife]_vars

\* One Code4VedManager
ManagerRest == <<robotsVars, bucketVars, storeVars, scrapeVars, filesVars, fleetVars,
                 validateVars, lockVars, sharedVars, rootVars, lifeVars, lateVars>>
InitManager ==
    /\ IdleManagerVars /\ IdleRobotsVars /\ IdleBucketVars /\ IdleStoreVars /\ IdleScrapeVars
    /\ IdleLifeVars /\ IdleLateVars
    /\ IdleFilesVars /\ IdleFleetVars /\ IdleValidateVars /\ IdleLockVars /\ IdleSharedVars
    /\ IdleRootVars
NextManager ==
    \/ AddResource /\ UNCHANGED ManagerRest
    \/ RemoveResource /\ UNCHANGED ManagerRest
    \/ GetResource /\ UNCHANGED ManagerRest
SpecManager == InitManager /\ [][NextManager]_vars

\* One scraper, used by two scrape_task coroutines of one event loop
SharedRest == <<robotsVars, bucketVars, storeVars, filesVars, fleetVars, validateVars, lockVars,
                rootVars, managerVars, lifeVars, lateVars,
                config, orch, call, task, results, idx, hist>>
InitShared ==
    /\ InitSharedVars /\ InitScrapeVars /\ config.max_retries = 0
    /\ IdleFilesVars /\ IdleFleetVars /\ IdleValidateVars /\ IdleLockVars
    /\ IdleRobotsVars /\ IdleBucketVars /\ IdleStoreVars /\ IdleRootVars /\ IdleManagerVars /\ IdleLifeVars /\ IdleLateVars
NextShared ==
    \/ \E t \in Tasks : BeginRequest(t) /\ UNCHANGED SharedRest
    \/ \E t \in Tasks : ResumeRequest(t) /\ UNCHANGED SharedRest
    \/ AwaitSleepers /\ UNCHANGED SharedRest
SpecShared == InitShared /\ [][NextShared]_vars

\* One Content, validated by ContentValidator and by the scraper
InitValidate ==
    /\ InitValidateVars /\ IdleFilesVars /\ IdleFleetVars /\ IdleLockVars /\ IdleSharedVars /\ IdleRootVars /\ IdleManagerVars /\ IdleLifeVars /\ IdleLateVars
    /\ IdleRobotsVars /\ IdleBucketVars /\ IdleStoreVars /\ IdleScrapeVars
NextValidate ==
    Validate /\ UNCHANGED <<robotsVars, bucketVars, storeVars, scrapeVars, filesVars, fleetVars,
                           lockVars, sharedVars, rootVars, managerVars, lifeVars, lateVars>>
SpecValidate == InitValidate /\ [][NextValidate]_vars

\* One scrape_all_sources call on a new orchestrator; the tasks of the
\* sources take their steps in any order
FleetRest == <<robotsVars, bucketVars, lastStore, filesVars, validateVars, lockVars, sharedVars,
              rootVars, managerVars, lifeVars, lateVars,
               config, scraper, call, task, results, idx, hist>>
InitFleet ==
    /\ InitFleetVars /\ IdleFilesVars /\ IdleValidateVars /\ IdleLockVars /\ IdleSharedVars
          /\ IdleRootVars /\ IdleManagerVars /\ IdleLifeVars /\ IdleLateVars
    /\ IdleRobotsVars /\ IdleBucketVars /\ IdleStoreVars /\ IdleScrapeVars
NextFleet ==
    \/ ScrapeAllSources /\ UNCHANGED FleetRest
    \/ \E s \in Sources : SourceStart(s) /\ UNCHANGED FleetRest
    \/ \E s \in Sources : SourceScrapeUrl(s) /\ UNCHANGED FleetRest
    \/ \E s \in Sources : SourceReturn(s) /\ UNCHANGED FleetRest
    \/ AwaitSource /\ UNCHANGED FleetRest
    \/ ScrapeAllReturn /\ UNCHANGED FleetRest
SpecFleet == InitFleet /\ [][NextFleet]_vars

----------------------------------------------------------------------------
(* C6: the robots check is fail-open *)

\* The rule block a line belongs to applies: the last User-agent line before
\* line i names "*" or an agent the configured user agent is part of.
InApplicableBlock(lines, i) ==
    \E j \in 1..(i - 1) :
        /\ lines[j].field = "user-agent"
        /\ \/ Lower(lines[j].value) = <<"*">>
           \/ IsSubstring(Lower(user_agent), Lower(lines[j].value))
        /\ \A k \in (j + 1)..(i - 1) : lines[k].field # "user-agent"

ApplicableDisallow(lines, path) ==
    \E i \in 1..Len(lines) :
        /\ lines[i].field = "disallow"
        /\ lines[i].value # <<>>
        /\ StartsWith(path, Lower(lines[i].value))
        /\ InApplicableBlock(lines, i)

----------------------------------------------------------------------------
(* C7: the token bucket bounds the time of N calls from below *)

\* C7: N consecutive acquire() calls on a bucket of rate R and capacity C that
\* starts full take, from the start of the first to the return of the N-th,
\* at least max(0, (N - C) / R).  (1/R is rate_den ticks.)
C7_ElapsedLowerBound ==
    bhist.n > 0 =>
        bhist.last_return - bhist.first_start
            >= Max(0, (bhist.n - bucket.capacity) * bucket.rate_den)


----------------------------------------------------------------------------
(* C9, C10: duplicate detection *)

BodyPaths(st) == {p \in DOMAIN st.files : st.files[p].kind = "text"}

\* the sidecar that store_content writes next to the body at p
SidecarOf(p) == [dir |-> p.dir,
                 name |-> [stem |-> p.name.stem \o <<"_metadata">>, suffix |-> "json"]]

\* the stored items: the bodies that have their sidecar
Items(st) == {p \in BodyPaths(st) : SidecarOf(p) \in DOMAIN st.files}

\* the content hash of the item at p: the hash of the Content its sidecar records
ItemHash(st, p) == _get_content_hash(st.files[SidecarOf(p)].data)

\* Content c is a stored item: its body and its sidecar are on disk
IsStored(st, c) ==
    /\ TextPath(c) \in Items(st)
    /\ st.files[TextPath(c)].text = c.text
    /\ st.files[MetadataPath(c)].data = c

\* C9: with duplicate detection enabled, store_content of a Content that is
\* already a stored item fails with the duplicate error, writes no body and
\* no sidecar, and leaves the hash index (in memory and on disk) unchanged,
\* so that the Content stays exactly one stored item.
C9_SecondStoreRejected ==
    [][(/\ lastStore'.n = lastStore.n + 1
        /\ storage.duplicate_detection
        /\ IsStored(storage, lastStore'.content))
       => (/\ lastStore'.raised
           /\ lastStore'.error = "duplicate"
           /\ storage'.files = storage.files
           /\ storage'.hash_file = storage.hash_file
           /\ storage'._content_hashes = storage._content_hashes
           /\ Cardinality({p \in Items(storage') :
                  ItemHash(storage', p) = _get_content_hash(lastStore'.content)}) = 1)]_vars

\* the same Content was stored twice in a row and the second call was rejected
C9_WitnessStoredTwice ==
    /\ storage.duplicate_detection
    /\ lastStore.n >= 2
    /\ lastStore.error = "duplicate"
    /\ IsStored(storage, lastStore.content)

\* C10: with duplicate detection enabled, after any sequence of
\* store_content calls and re-openings of the storage root, no two stored
\* items have the same content hash.
C10_NoTwoItemsShareHash ==
    storage.duplicate_detection =>
        \A p, q \in Items(storage) :
            p # q => ItemHash(storage, p) # ItemHash(storage, q)

\* after a re-opening, a Content with the hash of an item stored before it
\* (but another file name) was offered and rejected, and two items are stored
C10_WitnessAcrossReopen ==
    /\ storage.duplicate_detection
    /\ storage.session >= 2
    /\ lastStore.session >= 2
    /\ lastStore.error = "duplicate"
    /\ ~IsStored(storage, lastStore.content)
    /\ Cardinality(Items(storage)) >= 1


----------------------------------------------------------------------------
(* C1-C5: what scrape_task records *)

\* scrape_task has returned
TaskDone == call.pc \in {"task_done", "returned"} /\ task.urls # <<>>

\* every attempt made for the i-th URL of the task raised
AlwaysRaised(i) ==
    /\ hist.urls[i].attempts >= 1
    /\ hist.urls[i].raised = hist.urls[i].attempts

ResultsFor(url) == {k \in DOMAIN results : results[k].url = url}

\* C1: with task.max_retries = m, a URL whose scrape_url raises on every
\* attempt is attempted m + 1 times, after which exactly one Result, Failed,
\* is recorded for it and task.failed_urls counts it once.
C1_RetryExhaustion ==
    TaskDone =>
        /\ \A i \in DOMAIN task.urls :
              AlwaysRaised(i) =>
                  /\ hist.urls[i].attempts = task.max_retries + 1
                  /\ Cardinality(ResultsFor(task.urls[i])) = 1
                  /\ \A k \in ResultsFor(task.urls[i]) : results[k].status = "failed"
        /\ task.failed_urls = Cardinality({i \in DOMAIN task.urls : AlwaysRaised(i)})

\* C2: scrape_task returns exactly one Result for every URL of task.urls,
\* whatever mix of URLs succeeds and fails and whatever max_retries is.
C2_OneResultPerUrl ==
    TaskDone =>
        /\ Len(results) = Len(task.urls)
        /\ \A i \in DOMAIN task.urls : Cardinality(ResultsFor(task.urls[i])) = 1

\* C3: a task ends Completed only if every URL was scraped and validated
\* successfully; if scraping or validation failed for a URL it ends Failed.
C3_CompletedOnlyIfAllSucceeded ==
    TaskDone =>
        /\ task.status = "completed" => task.successful_urls = Len(task.urls)
        /\ (\E i \in DOMAIN task.urls : hist.urls[i].raised > 0) => task.status = "failed"

\* C4: when scrape_task returns, task.status is Completed if and only if
\* task.failed_urls = 0, and Failed otherwise; it is not Pending or Running.
C4_StatusIffNoFailedUrls ==
    TaskDone =>
        /\ task.status \in {"completed", "failed"}
        /\ task.status = "completed" <=> task.failed_urls = 0

\* a task that returned with a URL recorded as failed and another as successful
C4_WitnessPartialFailure ==
    /\ TaskDone
    /\ task.failed_urls > 0
    /\ task.successful_urls > 0
    /\ task.status = "failed"

Denied == {i \in DOMAIN task.urls : hist.urls[i].denied}

\* C5: a URL the robots check denies is not retried; its Result is recorded
\* Failed with the robots.txt disallow as its error, task.failed_urls counts
\* it, and the robots-block counter is incremented.
C5_RobotsDenialRecorded ==
    TaskDone =>
        /\ \A i \in Denied :
              /\ hist.urls[i].attempts = 1
              /\ Cardinality(ResultsFor(task.urls[i])) = 1
              /\ \A k \in ResultsFor(task.urls[i]) :
                    /\ results[k].status = "failed"
                    /\ results[k].error_message = "URL disallowed by robots.txt"
        /\ task.failed_urls >= Cardinality(Denied)
        /\ scraper.stats.robots_txt_blocks = Cardinality(Denied)

----------------------------------------------------------------------------
(* C8: the pace of scrape_source *)

\* scrape_source returned, the task held all n URLs of the call, and the
\* adapter made one request for each and returned valid content for each
AllScrapedValid ==
    /\ call.pc = "returned"
    /\ call.n_urls >= 1
    /\ call.max_pages >= call.n_urls
    /\ \A i \in DOMAIN task.urls :
          hist.urls[i].attempts = 1 /\ hist.urls[i].raised = 0

AllCompleted ==
    /\ Len(call.returned) = call.n_urls
    /\ \A k \in DOMAIN call.returned : call.returned[k].status = "completed"

\* C8 as claimed: n Completed Results, consecutive content requests (the
\* GETs) at least 1/r apart, total elapsed time at least (n - 1)/r.
C8_RequestsSpaced ==
    AllScrapedValid =>
        /\ AllCompleted
        /\ hist.gets.min_gap = -1 \/ hist.gets.min_gap >= config.interval
        /\ call.returned_at - call.started_at >= (call.n_urls - 1) * config.interval

\* The part of C8 that does hold: n Completed Results, consecutive passes of
\* the rate limiter (the values _last_request_time takes, each before the robots
\* check of its request) at least 1/r apart, total elapsed time at least
\* (n - 1)/r.
C8_RateLimitPassesSpaced ==
    AllScrapedValid =>
        /\ AllCompleted
        /\ hist.stamps.n = call.n_urls
        /\ hist.stamps.min_gap = -1 \/ hist.stamps.min_gap >= config.interval
        /\ call.returned_at - call.started_at >= (call.n_urls - 1) * config.interval

\* two or more URLs, all scraped with valid content, and the limiter slept
C8_WitnessPaced ==
    /\ AllScrapedValid
    /\ call.n_urls >= 2
    /\ hist.stamps.min_gap = config.interval
    /\ call.returned_at - call.started_at = (call.n_urls - 1) * config.interval

----------------------------------------------------------------------------
(* C11, C12: reading the store back and cleaning it up *)

\* the directory tree a load or a cleanup found
Before == [files |-> fileop.before]

\* C11: load_content of the path store_content returned for a Content
\* succeeds and returns a Content whose text, title, url, source and format
\* are those stored.
C11_LoadReturnsStored ==
    (fileop.op = "load" /\ fileop.path \in Items(Before)) =>
        LET c == fileop.before[SidecarOf(fileop.path)].data
        IN  /\ ~fileop.raised
            /\ fileop.loaded.text = fileop.before[fileop.path].text
            /\ fileop.loaded.title = c.title
            /\ fileop.loaded.url = c.url
            /\ fileop.loaded.source = c.source
            /\ fileop.loaded.format = c.format

\* the files of a tree that miss their partner: bodies without sidecar and
\* sidecars without body
Orphans(st) ==
    {p \in BodyPaths(st) : SidecarOf(p) \notin DOMAIN st.files}
        \cup {m \in DOMAIN st.files :
                 /\ st.files[m].kind = "json"
                 /\ \A p \in BodyPaths(st) : SidecarOf(p) # m}

----------------------------------------------------------------------------
(* C13: scrape_all_sources *)

\* the task of source s ended by returning the Results of its own URLs:
\* one per URL, Completed where the request succeeded and Failed where not
OwnResults(s) ==
    LET t == fleet.src[s]
    IN  /\ Len(t.results) = Len(t.task.urls)
        /\ \A i \in DOMAIN t.results :
              /\ t.results[i].url = t.task.urls[i]
              /\ t.results[i].status = "completed" <=> t.outcomes[i] = "ok"

\* C13: scrape_all_sources does not raise when the scrape_source of a source
\* raises; the map it returns has one entry per registered source, the
\* empty list for a source whose scrape_source raised; the tasks of the
\* other sources have run to their end and their entries are their own
\* results.
C13_SourceFailureIsolated ==
    /\ fleet.pc # "raised"
    /\ fleet.pc = "returned" =>
          /\ DOMAIN fleet.all_results = Sources
          /\ \A s \in Sources :
                /\ fleet.src[s].pc \in {"returned", "raised"}
                /\ fleet.src[s].pc = "raised" => fleet.all_results[s] = <<>>
                /\ fleet.src[s].pc = "returned" =>
                      /\ fleet.all_results[s] = fleet.src[s].results
                      /\ OwnResults(s)

\* scrape_all_sources returned after the task of one source raised and the
\* task of another scraped a URL
C13_WitnessOneSourceRaised ==
    /\ fleet.pc = "returned"
    /\ \E s, t \in Sources :
          /\ fleet.src[s].pc = "raised"
          /\ fleet.src[t].pc = "returned"
          /\ \E i \in DOMAIN fleet.all_results[t] :
                fleet.all_results[t][i].status = "completed"

----------------------------------------------------------------------------
(* C14: scrape_source stores what it scraped *)

IsCompleted(result) == result.status = "completed"

\* C14: when scrape_source returns, the contents handed to store_content
\* are those of the Completed Results, each once and in their order; a
\* store_content that failed (a duplicate included) did not end the call, did
\* not keep the later contents from the store, and the Results returned are
\* those of scrape_task, their status unchanged.
C14_CompletedResultsStoredOnce ==
    /\ call.pc = "raised" => results = <<>>
    /\ (call.pc = "returned" /\ task.urls # <<>>) =>
          LET completed == SelectSeq(call.returned, IsCompleted)
          IN  /\ call.returned = results
              /\ Len(call.stores) = Len(completed)
              /\ \A k \in DOMAIN call.stores :
                    /\ call.stores[k].content = completed[k].content
                    /\ _get_content_hash(call.stores[k].content) \in storage._content_hashes

\* scrape_source returned after a store_content that failed as a duplicate
\* was followed by one that stored
C14_WitnessStoredAfterDuplicate ==
    /\ call.pc = "returned"
    /\ \E j, k \in DOMAIN call.stores :
          /\ j < k
          /\ call.stores[j].raised /\ call.stores[j].error = "duplicate"
          /\ ~call.stores[k].raised

----------------------------------------------------------------------------
(* C15, C16: the boundary of scrape_source *)

\* C15: scrape_source raises for an unknown source name only (ValueError),
\* whatever urls and max_pages are.
C15_RaisesForUnknownSourceOnly ==
    call.pc = "raised" => call.error = "ValueError"

\* the URLs scrape_task has made an attempt for
Processed == {i \in DOMAIN hist.urls : hist.urls[i].attempts > 0}

----------------------------------------------------------------------------
(* C17: content that is too short *)

\* the URLs whose content was shorter than min_text_length at every attempt
TooShort ==
    {i \in DOMAIN task.urls :
        hist.urls[i].attempts >= 1 /\ hist.urls[i].too_short = hist.urls[i].attempts}

\* C17: content shorter than min_text_length fails validation as too short,
\* and when scrape_task returns the URL has one Result, Failed with the
\* validation error, and task.failed_urls counts it.
C17_TooShortRecordedFailed ==
    TaskDone =>
        /\ \A i \in TooShort :
              /\ Cardinality(ResultsFor(task.urls[i])) = 1
              /\ \A k \in ResultsFor(task.urls[i]) :
                    /\ results[k].status = "failed"
                    /\ results[k].error_type = "ContentValidationError"
        /\ task.failed_urls >= Cardinality(TooShort)

----------------------------------------------------------------------------
(* C18: what makes validation reject *)

\* a hard failure holds for the Content: text length outside [min, max],
\* format not allowed, URL malformed, title empty, or (encoding validation
\* enabled) text not encodable
HardFailure(v, content) ==
    \/ Len(content.text) < v.min_text_length
    \/ Len(content.text) > v.max_text_length
    \/ content.format \notin v.allowed_formats
    \/ ~_is_valid_url(content.url)
    \/ Strip(content.title) = <<>>
    \/ v.validate_encoding /\ ~content.encodable

\* C18: ContentValidator.validate and the runner's validation each reject a
\* Content exactly when a hard failure holds for it.
C18_RejectsExactlyHardFailures ==
    vcheck.pc = "done" =>
        /\ ~vcheck.validator.valid <=> HardFailure(vcheck.cfg, vcheck.content)
        /\ ~vcheck.runner.ok <=> HardFailure(vcheck.cfg, vcheck.content)

----------------------------------------------------------------------------
(* C19: concurrent callers of acquire() *)

\* the callers between reading and writing tokens and last_update
InSection == {p \in Callers : lock.pc[p] = "sleeping"}

Returned == {p \in Callers : lock.pc[p] = "returned"}

\* At most one caller is inside the section, it holds the lock, and
\* total_requests is the number of acquire() calls that have returned
LockHeldThroughAcquire ==
    /\ Cardinality(InSection) <= 1
    /\ \A p \in InSection : lock.holder = p
    /\ bucket.total_requests = Cardinality(Returned)

\* C19: concurrent callers of acquire() are mutually exclusive in the token
\* accounting, total_requests is the number of calls that have returned,
\* and no token is granted twice: the tokens granted and those left in the
\* bucket are no more than the capacity and what the rate has added since
\* the bucket was made (at time 0).
C19_ExclusiveTokenAccounting ==
    /\ LockHeldThroughAcquire
    /\ bucket.total_requests * bucket.rate_den + bucket.tokens
          <= bucket.capacity * bucket.rate_den + bclock

----------------------------------------------------------------------------
(* C20: two tasks on one scraper *)

\* C20: with two scrape tasks running on one scraper at the same time, no
\* two content requests of the source go out less than 1/rate_limit apart.
C20_SharedScraperKeepsRate ==
    shared.gets.min_gap = -1 \/ shared.gets.min_gap >= config.interval

----------------------------------------------------------------------------
(* C21: the hash index under several store objects *)

\* the storage root seen as a store, for Items and ItemHash
RootStore == [files |-> root.files]

\* C21: with duplicate detection enabled, after any interleaving of
\* store_content calls, made through one or through two store objects on the
\* same storage root, .content_hashes.json holds the hash of every stored
\* item and of every Content for which store_content returned a path.
C21_IndexHoldsEveryItem ==
    root.duplicate_detection =>
        /\ \A p \in Items(RootStore) : ItemHash(RootStore, p) \in root.hash_file.hashes
        /\ root.returned \subseteq root.hash_file.hashes

----------------------------------------------------------------------------
(* C30: the registry of Code4VedManager *)

\* C30: add_resource with a registered id raises and leaves the registry
\* unchanged; remove_resource and get_resource with an unregistered id raise
\* and leave the registry unchanged; after any sequence of calls the
\* registry holds exactly the ids added and not removed since.
C30_RegistryHoldsLiveIds ==
    [][manager'.n = manager.n + 1 =>
          /\ (manager'.op = "add" /\ manager'.id \in DOMAIN manager.resources)
                => (manager'.raised /\ manager'.resources = manager.resources)
          /\ (manager'.op \in {"remove", "get"} /\ manager'.id \notin DOMAIN manager.resources)
                => (manager'.raised /\ manager'.resources = manager.resources)
          /\ DOMAIN manager'.resources = manager'.live]_vars

\* add_resource was refused for an id that is registered, after a resource
\* had been removed
C30_WitnessDuplicateRefused ==
    /\ manager.op = "add"
    /\ manager.raised
    /\ manager.n >= 4
    /\ Cardinality(manager.live) = 1

----------------------------------------------------------------------------
(* C22: no partial item *)

\* the sidecars under the storage root
SidecarPaths(st) == {p \in DOMAIN st.files : st.files[p].kind = "json"}

\* C22: after any store_content call, returned or raised, every body file
\* under the storage root has its metadata sidecar and every sidecar its body.
C22_NoPartialItem ==
    /\ \A p \in BodyPaths(storage) : SidecarOf(p) \in DOMAIN storage.files
    /\ \A q \in SidecarPaths(storage) : \E p \in BodyPaths(storage) : SidecarOf(p) = q

----------------------------------------------------------------------------
(* C23, C24: the audit of duplicates and the export *)

\* the stored items that have the hash h
ItemsWithHash(st, h) == {p \in Items(st) : ItemHash(st, p) = h}

\* C23: with duplicate detection enabled, get_duplicate_content returns one
\* group for each content hash that more than one stored item has, the group
\* listing all the items with that hash, and no other group.
C23_GroupsAreSharedHashes ==
    (fileop.op = "duplicates" /\ storage.duplicate_detection) =>
        fileop.duplicates =
            {[hash |-> h, items |-> ItemsWithHash(Before, h)] :
                h \in {ItemHash(Before, p) :
                          p \in {q \in Items(Before) :
                                    Cardinality(ItemsWithHash(Before, ItemHash(Before, q))) > 1}}}

\* the stored items that match the filters of the last export
Matching ==
    {p \in Items(Before) :
        /\ fileop.source # <<>> => p.dir[1] = fileop.source
        /\ fileop.format_type # "" => p.name.suffix = fileop.format_type}

\* C24: export_content copies, for every stored item that matches the
\* filters, the body and its metadata sidecar to the same relative paths
\* under the destination.
C24_ExportCopiesPairs ==
    fileop.op = "export" =>
        \A p \in Matching :
            /\ p \in DOMAIN fileop.exported
            /\ fileop.exported[p] = fileop.before[p]
            /\ SidecarOf(p) \in DOMAIN fileop.exported
            /\ fileop.exported[SidecarOf(p)] = fileop.before[SidecarOf(p)]

----------------------------------------------------------------------------
(* C25: robots.txt is cached *)

\* C25: over any sequence of robots checks of one scraper, at most one
\* request for robots_txt_url is sent; later checks answer from the rules
\* fetched by the first.
C25_RobotsFetchedOnce ==
    rcall.requests <= 1

----------------------------------------------------------------------------
(* C26, C28, C29: ScrapingTask and ScrapingResult *)

\* C26: once the status of a Task is Completed or Failed, no call of start,
\* complete, fail or add_result changes its status or its counters.
C26_TerminalTaskIsFrozen ==
    life.before.task.status \in {"completed", "failed"} => life.task = life.before.task

C28_RetryFrame ==
    life.op = "retry" =>
        life.result = [life.before.result EXCEPT
                          !.status = "retrying",
                          !.retry_count = @ + 1,
                          !.error_message = "",
                          !.error_type = ""]

\* retry() was called on a result that had failed after it had got content
C28_WitnessRetryAfterFailure ==
    /\ life.op = "retry"
    /\ life.before.result.status = "failed"
    /\ life.before.result.error_message # ""
    /\ life.before.result.content # NoContent

\* C29: for a task built with n URLs, after k calls of add_result,
\* progress_percentage is 100*k/n and processed_urls = successful_urls +
\* failed_urls = k.
C29_ProgressIsShareOfUrls ==
    LET t == life.task
        n == Len(t.urls)
        pct == progress_percentage(t)
    IN  /\ t.processed_urls = t.successful_urls + t.failed_urls
        /\ pct.num * n = 100 * t.processed_urls * pct.den

----------------------------------------------------------------------------
(* C31: the order of the steps of one request *)

\* C31: in every pass of scrape_task over a URL, the GET goes out only after
\* the rate-limit wait of that request is over and the robots check of that
\* URL has allowed it; a URL the robots check denies is not fetched and
\* leaves requests_made as it was.
C31_PipelineOrder ==
    [][idx' = idx + 1 =>
          LET denied == hist'.urls[idx].denied
              sent   == hist'.gets.n = hist.gets.n + 1
          IN  /\ hist'.gets.n \in {hist.gets.n, hist.gets.n + 1}
              /\ scraper'.stats.requests_made = hist'.gets.n
              /\ denied => (~sent /\ scraper'.stats.requests_made = scraper.stats.requests_made)
              /\ sent => (~denied /\ hist'.gets.last >= hist'.stamps.last)]_vars

\* one URL was denied by robots.txt and another was fetched
C31_WitnessDeniedAndFetched ==
    /\ scraper.stats.robots_txt_blocks >= 1
    /\ scraper.stats.requests_made >= 1
    /\ \E i \in DOMAIN hist.urls : hist.urls[i].denied

----------------------------------------------------------------------------
(* C32, C33, C34 *)

\* C32: two Contents have the same hash input only if they have the same
\* text, the same url and the same source, also when a field holds the
\* delimiter '|'.
C32_HashInputUnambiguous ==
    (hashing.n > 0 /\ hashing.hash_a = hashing.hash_b) =>
        /\ hashing.a.text = hashing.b.text
        /\ hashing.a.url = hashing.b.url
        /\ hashing.a.source = hashing.b.source

\* C33: the Tasks built by distinct scrape_source calls have distinct ids,
\* also two calls for one source within one second.
C33_TaskIdsUnique ==
    \A i, j \in DOMAIN ids.made : i # j => ids.made[i] # ids.made[j]

\* C34: discover_urls returns at most max_pages URLs.
C34_AtMostMaxPagesDiscovered ==
    crawl.pc = "returned" => Cardinality(crawl.discovered_urls) <= crawl.max_pages

----------------------------------------------------------------------------
(* C35, C36: complete items are kept *)

\* C35: cleanup_orphaned_files removes neither the body nor the sidecar of
\* a complete stored item, and returns 0 when every file belongs to one.
C35_CleanupKeepsCompleteItems ==
    fileop.op = "cleanup" =>
        /\ \A p \in Items(Before) :
              /\ p \in DOMAIN storage.files
              /\ SidecarOf(p) \in DOMAIN storage.files
        /\ Orphans(Before) = {} => fileop.removed_count = 0

\* C36: a store_content call that returns a path, for a Content whose hash
\* no stored item has, overwrites no stored item: every item stored before
\* is still there as it was, and there is one item more.
C36_StoreAddsOneItem ==
    [][(/\ lastStore'.n = lastStore.n + 1
        /\ ~lastStore'.raised
        /\ \A p \in Items(storage) :
               ItemHash(storage, p) # _get_content_hash(lastStore'.content))
          => /\ Cardinality(Items(storage')) = Cardinality(Items(storage)) + 1
             /\ \A p \in Items(storage) :
                   /\ p \in Items(storage')
                   /\ storage'.files[p] = storage.files[p]
                   /\ storage'.files[SidecarOf(p)] = storage.files[SidecarOf(p)]]_vars

----------------------------------------------------------------------------
(* C37, C38, C39: the counters *)

\* no scrape_source call is in progress
NoCallInProgress == call.pc \in {"idle", "returned", "raised"}

\* C37: whenever no scrape_source call is in progress, the orchestrator has
\* total_urls == successful_urls + failed_urls.
C37_UrlCountersConsistent ==
    NoCallInProgress => orch.total_urls = orch.successful_urls + orch.failed_urls

\* C38: whenever no scrape_source call is in progress, the orchestrator has
\* total_tasks == completed_tasks + failed_tasks.
C38_TaskCountersConsistent ==
    NoCallInProgress => orch.total_tasks = orch.completed_tasks + orch.failed_tasks

\* C39: between _make_request calls the scraper has requests_made ==
\* successful_requests + failed_requests + rate_limited_requests.
C39_RequestCountersConsistent ==
    scraper.stats.requests_made =
        scraper.stats.successful_requests + scraper.stats.failed_requests
            + scraper.stats.rate_limited_requests

\* requests of each of the three outcomes have been made
C39_WitnessMixedOutcomes ==
    /\ scraper.stats.rate_limited_requests >= 1
    /\ scraper.stats.failed_requests + scraper.stats.successful_requests >= 1
    /\ scraper.stats.requests_made >= 2
====
